---------------------------- MODULE Spec2Model ----------------------------
(***************************************************************************)
(* A model of src/Simulator.py, which holds two settlement simulators:     *)
(*                                                                         *)
(*  - the transaction-agent simulator (AccountAgent, InstitutionAgent,     *)
(*    InstructionAgent, TransactionAgent; lines 8-380), whose ledger keeps *)
(*    cashBalance, creditLimit and securities per account;                 *)
(*  - the staged pipeline (lines 384-810): institutions feed the incoming  *)
(*    queue, and ValidationAgent, MatchingAgent, ClearingAgent,            *)
(*    PositioningAgent and SettlementAgent hand work to each other through *)
(*    the queues of SettlementModel, each stepping once per tick in an     *)
(*    order RandomActivation shuffles.                                     *)
(*                                                                         *)
(* Amounts are integers: the code's floats (price = round(uniform, 2))     *)
(* are taken in a unit in which the chosen prices are whole numbers.       *)
(* Wall-clock timestamps are replaced by the tick in which an object is    *)
(* created.  The Logger's rows are kept as a bag of (agent, event,         *)
(* transaction, details) without the Step and Timestamp columns, and the   *)
(* per-step summary rows that carry no transaction id are left out.        *)
(***************************************************************************)
EXTENDS Integers, Sequences, FiniteSets, Bags, TLC

(***************************************************************************)
(* Bounds of the model.                                                    *)
(***************************************************************************)
\* institutions of the staged pipeline (the code builds 4, line 767)
NumInst == 2
\* transactions the institutions may initiate in one behaviour
MaxTx == 2
\* ticks (SettlementModel.step calls) in one behaviour
MaxTicks == 2
\* cancel instructions the institutions may issue in one behaviour
MaxCancel == 1
\* ticks of the behaviours that follow one transaction through every stage
TimedTicks == 7
\* transactions whose legs the producer of the incoming queue may append
OpenTx == 1
\* ticks of the behaviours fed through the incoming queue
OpenTicks == 3
\* child instructions followed
MaxChildren == 4
\* transactions fed to the two runs compared
OrderTx == 1
\* ticks the two runs are followed
OrderTicks == 4
\* log_event calls followed
MaxLog == 3
\* seconds the clock advances while they are made
MaxClock == 1
\* accounts of the transaction-agent simulator (generate_sample_data builds 5)
NumAccounts == 2
\* transactions of the transaction-agent simulator (generate_sample_data builds 20)
NumTxn == 2
\* largest amount, either sign, of a direct ledger call
MaxAmount == 3
\* ledger calls are followed while balances and holdings stay at or below this
MaxBalance == 4

(***************************************************************************)
(* Program constants of the staged pipeline.                               *)
(***************************************************************************)
CashMin == 10000
SecMin == 100
ValidationId == 101
MatchingId == 102
ClearingId == 103
PositioningId == 104
SettlementId == 105

\* quantity = randint(1, 100) and price = uniform(10, 100): the sampled values
Quantities == {15}
Prices == {10}
\* Balances an institution can stand at after earlier settlements, as the
\* amount above the account's min_balance (the code starts every institution
\* 990000 cash and 9900 securities above the floor, out of reach of a few
\* transactions of at most 100 * 100).
CashSlack == {5, 100, 1000}
SecSlack == {10, 100}
RichCash == CashMin + 1000
RichSec == SecMin + 100

Institutions == 1..NumInst
Stages == {ValidationId, MatchingId, ClearingId, PositioningId, SettlementId}
Agents == Institutions \cup Stages

VARIABLES
  \* ---- staged pipeline: SettlementModel (lines 760-801) ----
  instructions,            \* incoming queue: settlement and cancel instructions
  validated_instructions,  \* validated queue
  matched_pairs,           \* dict tx -> {"Payment", "Security"}, in insertion order
  clearing_reports,
  positioning_reports,
  settlement_confirmations,
  tx_counter,
  total_possible_net,
  current_step,
  stepped,                 \* agents RandomActivation has already run this tick
  cash_account,            \* institution -> balance of its cash Account
  security_account,        \* institution -> balance of its security Account
  inbox,                   \* institution -> messages not yet processed
  logs,                    \* Logger.logs as a bag of rows
  settle_trace,            \* history: one record per report of the last SettlementAgent.step
  submitted,               \* history: what was appended to the incoming queue, and in which tick
  \* ---- transaction-agent simulator (lines 8-380) ----
  cashBalance,             \* account -> AccountAgent.cashBalance
  creditLimit,             \* account -> AccountAgent.creditLimit
  securities,              \* account -> AccountAgent.securities (securityType -> amount)
  allow_partial,           \* institution -> InstitutionAgent.allow_partial
  transactions,            \* transaction -> seller, buyer, amount, state
  last_call,               \* history: the last ledger call, what it found and returned
  event_log,               \* SettlementModel.event_log
  activity_log,            \* SettlementModel.activity_log
  now,                     \* the wall clock, in the seconds log_event formats it to
  children,                \* history: the child InstructionAgents createChildren has built
  runs                     \* two runs of the pipeline fed the same arrivals

pipeVars == <<instructions, validated_instructions, matched_pairs, clearing_reports,
              positioning_reports, settlement_confirmations, tx_counter,
              total_possible_net, current_step, stepped, cash_account,
              security_account, inbox, logs, settle_trace>>

txnVars == <<cashBalance, creditLimit, securities, allow_partial, transactions,
             last_call>>

logVars == <<event_log, activity_log, now>>

moreVars == <<children, runs>>

\* what the steps of the pipeline's agents leave alone
outside == <<submitted, txnVars, logVars, moreVars>>

vars == <<pipeVars, outside>>

(***************************************************************************)
(* Sequence helpers.                                                       *)
(***************************************************************************)
RECURSIVE SelectIdx(_, _, _)
\* the indices k >= i of s with s[k].transaction_id = tx, in order
SelectIdx(s, tx, i) ==
  IF i > Len(s) THEN <<>>
  ELSE IF s[i].transaction_id = tx THEN <<i>> \o SelectIdx(s, tx, i + 1)
  ELSE SelectIdx(s, tx, i + 1)

RECURSIVE SumSeq(_)
SumSeq(s) == IF s = <<>> THEN 0 ELSE Head(s) + SumSeq(Tail(s))

RECURSIVE SumOver(_, _)
\* the sum of f over the finite set S of its arguments
SumOver(f, S) ==
  IF S = {} THEN 0
  ELSE LET x == CHOOSE y \in S : TRUE IN f[x] + SumOver(f, S \ {x})

(***************************************************************************)
(* Data objects (lines 413-488).                                           *)
(***************************************************************************)
\* a check_balance that lets the balance go down to zero
check_balance_toZero(balance, min_balance, amount) == (balance - amount) >= 0

\* Account.check_balance
check_balance(balance, min_balance, amount) == (balance - amount) >= min_balance

\* a deposit that is lost
deposit_lost(balance, amount) == balance

\* Account.deposit: the new balance
deposit(balance, amount) == balance + amount

\* Account.withdraw: the new balance; the caller tests check_balance for the
\* returned True / False
withdraw(balance, min_balance, amount) ==
  IF check_balance(balance, min_balance, amount) THEN balance - amount ELSE balance

\* SettlementInstruction.__init__: status "New"; CancelInstruction.__init__ likewise.
\* One record shape serves both: a cancel instruction has instruction_type "Cancel".
SettlementInstruction(tx, type, quantity, price, sending, receiving, ts) ==
  [transaction_id |-> tx, instruction_type |-> type, quantity |-> quantity,
   price |-> price, sendingInstitution |-> sending,
   receivingInstitution |-> receiving, timestamp |-> ts, status |-> "New"]

CancelInstruction(tx, sending, ts) ==
  [transaction_id |-> tx, instruction_type |-> "Cancel", quantity |-> 0,
   price |-> 0, sendingInstitution |-> sending,
   receivingInstitution |-> 0, timestamp |-> ts, status |-> "New"]

\* the None of an empty matched_pairs slot
NoInstr ==
  [transaction_id |-> 0, instruction_type |-> "None", quantity |-> 0,
   price |-> 0, sendingInstitution |-> 0,
   receivingInstitution |-> 0, timestamp |-> 0, status |-> "None"]

\* a validate() that tests the quantity only
validate_quantityOnly(instr) == instr.quantity > 0

\* SettlementInstruction.validate
validate(instr) == instr.quantity > 0 /\ instr.price > 0

\* a cancel() that leaves the status as it was
cancel_noop(instr) == instr

\* a cancel() that reopens a canceled instruction
cancel_reopen(instr) ==
  [instr EXCEPT !.status = IF @ = "Canceled" THEN "New" ELSE "Canceled"]

\* SettlementInstruction.cancel
cancel(instr) ==
  IF instr.status \notin {"Settled", "Canceled"}
  THEN [instr EXCEPT !.status = "Canceled"]
  ELSE instr

\* a row of Logger.logs: agent, event, transaction (and leg, for an
\* instruction id "TX-n-P" / "TX-n-S"), and the word and numbers of the details
LogRow(agent, event, tx, leg, text, a, b) ==
  [agent |-> agent, event |-> event, tx |-> tx, leg |-> leg, text |-> text,
   a |-> a, b |-> b]

Log(lg, row) == lg (+) SetToBag({row})

\* the leg letter of an instruction id
Leg(instr) == IF instr.instruction_type = "Payment" THEN "P" ELSE "S"

\* Message
Message(msg_type, tx, leg, status) ==
  [msg_type |-> msg_type, tx |-> tx, leg |-> leg, status |-> status]


(***************************************************************************)
(* InstitutionAgent of the staged pipeline (lines 492-578).                *)
(***************************************************************************)
RECURSIVE process_messages(_, _, _)
\* InstitutionAgent.process_messages: the rows logged while draining the inbox
process_messages(i, box, lg) ==
  IF box = <<>> THEN lg
  ELSE LET msg == Head(box)
           row ==
             IF msg.msg_type = "validation_result"
             THEN IF msg.status = "Invalid"
                  THEN LogRow(i, "ReceivedInvalidation", msg.tx, msg.leg, "", 0, 0)
                  ELSE LogRow(i, "ReceivedValidation", msg.tx, msg.leg, "", 0, 0)
             ELSE LogRow(i, "SettlementConfirmation", msg.tx, "", msg.status, 0, 0)
       IN process_messages(i, Tail(box), Log(lg, row))

\* the pending_tx list of InstitutionAgent.step (lines 524-528)
pending_tx(i) ==
  {instructions[k].transaction_id : k \in
     {j \in DOMAIN instructions :
        /\ instructions[j].sendingInstitution = i
        /\ instructions[j].status \notin {"Canceled", "Settled"}}}
  \cup
  {validated_instructions[k].transaction_id : k \in
     {j \in DOMAIN validated_instructions :
        /\ validated_instructions[j].sendingInstitution = i
        /\ validated_instructions[j].status \notin {"Canceled", "Settled"}}}

\* what was appended to the incoming queue, and in which tick
Submission(tx, kind) == [transaction_id |-> tx, kind |-> kind, tick |-> current_step]

\* lines 529-536: the cancellation branch; tx = 0 when the draw declines
IssueCancel(i, tx, st) ==
  IF tx = 0 THEN st
  ELSE [st EXCEPT
          !.ins = Append(@, CancelInstruction(tx, i, current_step)),
          !.sub = @ \cup {Submission(tx, "Cancel")},
          !.lg = Log(@, LogRow(i, "IssuedCancellation", tx, "", "", 0, 0))]

\* lines 538-578: the initiation branch
Initiate(i, counterparty, quantity, price, st) ==
  LET tx == st.txc
      payment_instr == SettlementInstruction(tx, "Payment", quantity, price,
                                             i, counterparty, current_step)
      security_instr == SettlementInstruction(tx, "Security", quantity, price,
                                              counterparty, i, current_step)
  IN [st EXCEPT
        !.txc = tx + 1,
        !.ins = @ \o <<payment_instr, security_instr>>,
        !.sub = @ \cup {Submission(tx, "Payment"), Submission(tx, "Security")},
        !.lg = Log(@, LogRow(i, "InitiatedTransaction", tx, "", "", quantity, price))]

\* the IssuedCancellation rows logged so far
IssuedCancels ==
  LET S == {r \in BagToSet(logs) : r.event = "IssuedCancellation"}
  IN SumOver([r \in S |-> CopiesIn(r, logs)], S)

\* InstitutionAgent.step, with at most maxTx transactions initiated and
\* maxCancel cancellations issued in the behaviour
InstitutionAct(i, maxTx, maxCancel) ==
  /\ i \notin stepped
  /\ \E tx_to_cancel \in {0} \cup pending_tx(i) :
     \E initiate \in BOOLEAN :
     \E counterparty \in Institutions \ {i} :
     \E quantity \in Quantities :
     \E price \in Prices :
       /\ initiate => tx_counter <= maxTx
       /\ tx_to_cancel # 0 => IssuedCancels < maxCancel
       \* one representative of the draws that do not initiate
       /\ ~initiate => (\A c \in Institutions \ {i} : counterparty <= c)
                       /\ (\A q \in Quantities : quantity <= q)
                       /\ (\A p \in Prices : price <= p)
       /\ LET st0 == [ins |-> instructions, txc |-> tx_counter, sub |-> submitted,
                      lg |-> process_messages(i, inbox[i], logs)]
              st1 == IssueCancel(i, tx_to_cancel, st0)
              st2 == IF initiate
                     THEN Initiate(i, counterparty, quantity, price, st1)
                     ELSE st1
          IN /\ instructions' = st2.ins
             /\ tx_counter' = st2.txc
             /\ submitted' = st2.sub
             /\ logs' = st2.lg
       /\ inbox' = [inbox EXCEPT ![i] = <<>>]
       /\ stepped' = stepped \cup {i}
       /\ UNCHANGED <<validated_instructions, matched_pairs, clearing_reports,
                      positioning_reports, settlement_confirmations,
                      total_possible_net, current_step, cash_account,
                      security_account, settle_trace>>
       /\ UNCHANGED <<txnVars, logVars, moreVars>>

(***************************************************************************)
(* ValidationAgent (lines 580-638).                                        *)
(***************************************************************************)
\* loops of process_cancel_instruction that cancel nothing
CancelIn_none(q, tx) == q

\* the loop bodies without the test of the transaction id
CancelIn_all(q, tx) ==
  [k \in DOMAIN q |->
     IF /\ q[k].instruction_type # "Cancel"
        /\ q[k].status \notin {"Canceled", "Settled"}
     THEN cancel(q[k]) ELSE q[k]]

\* the loop bodies of process_cancel_instruction over one queue
CancelIn(q, tx) ==
  [k \in DOMAIN q |->
     IF /\ q[k].instruction_type # "Cancel"
        /\ q[k].transaction_id = tx
        /\ q[k].status \notin {"Canceled", "Settled"}
     THEN cancel(q[k]) ELSE q[k]]

CanceledIn(q, tx) ==
  Cardinality({k \in DOMAIN q :
     /\ q[k].instruction_type # "Cancel"
     /\ q[k].transaction_id = tx
     /\ q[k].status \notin {"Canceled", "Settled"}})

\* the slots of matched_pairs[tx] that lines 607-610 cancel
CanceledInPairs(mp, tx) ==
  LET hit == {k \in DOMAIN mp : mp[k].transaction_id = tx}
      live(x) == x # NoInstr /\ x.status \notin {"Canceled", "Settled"}
  IN Cardinality({k \in hit : live(mp[k].Payment)})
     + Cardinality({k \in hit : live(mp[k].Security)})

RECURSIVE DropTx(_, _)
\* del self.model.matched_pairs[tx]
DropTx(mp, tx) ==
  IF mp = <<>> THEN <<>>
  ELSE IF Head(mp).transaction_id = tx THEN DropTx(Tail(mp), tx)
  ELSE <<Head(mp)>> \o DropTx(Tail(mp), tx)

\* ValidationAgent.process_cancel_instruction
process_cancel_instruction(st, cancel_instr) ==
  LET tx == cancel_instr.transaction_id
      canceled_count == CanceledIn(st.ins, tx) + CanceledIn(st.val, tx)
                        + CanceledInPairs(st.mp, tx)
  IN [ins |-> CancelIn(st.ins, tx),
      val |-> CancelIn(st.val, tx),
      mp |-> DropTx(st.mp, tx),
      lg |-> Log(st.lg, LogRow(ValidationId, "ProcessedCancellation", tx, "", "",
                               canceled_count, 0))]

RECURSIVE ProcessCancels(_, _)
\* lines 615-621: every CancelInstruction of the incoming queue, in queue order
ProcessCancels(k, st) ==
  IF k > Len(st.ins) THEN st
  ELSE IF st.ins[k].instruction_type = "Cancel"
       THEN ProcessCancels(k + 1, process_cancel_instruction(st, st.ins[k]))
       ELSE ProcessCancels(k + 1, st)

RECURSIVE ValidateAll(_, _)
\* lines 624-638: the remaining settlement instructions, in queue order
ValidateAll(q, st) ==
  IF q = <<>> THEN st
  ELSE LET instr == Head(q)
           id == instr.transaction_id
           next ==
             IF instr.status = "Canceled"
             THEN [st EXCEPT !.lg = Log(@, LogRow(ValidationId,
                     "SkippedCanceledInstruction", id, Leg(instr), "", 0, 0))]
             ELSE IF validate(instr)
             THEN [val |-> Append(st.val, instr),
                   box |-> [st.box EXCEPT ![instr.sendingInstitution] =
                              Append(@, Message("validation_result", id, Leg(instr), "Valid"))],
                   lg |-> Log(st.lg, LogRow(ValidationId, "ValidatedInstruction",
                                            id, Leg(instr), "Valid", 0, 0))]
             ELSE [val |-> st.val,
                   box |-> [st.box EXCEPT ![instr.sendingInstitution] =
                              Append(@, Message("validation_result", id, Leg(instr), "Invalid"))],
                   lg |-> Log(st.lg, LogRow(ValidationId, "ValidatedInstruction",
                                            id, Leg(instr), "Invalid", 0, 0))]
       IN ValidateAll(Tail(q), next)

\* ValidationAgent.step
ValidationStep ==
  /\ ValidationId \notin stepped
  /\ LET st0 == [ins |-> instructions, val |-> validated_instructions,
                 mp |-> matched_pairs, lg |-> logs]
         st1 == ProcessCancels(1, st0)
         remaining_instructions ==
           SelectSeq(st1.ins, LAMBDA x : x.instruction_type # "Cancel")
         st2 == ValidateAll(remaining_instructions,
                            [val |-> st1.val, box |-> inbox, lg |-> st1.lg])
     IN /\ instructions' = <<>>
        /\ validated_instructions' = st2.val
        /\ matched_pairs' = st1.mp
        /\ inbox' = st2.box
        /\ logs' = st2.lg
  /\ stepped' = stepped \cup {ValidationId}
  /\ UNCHANGED <<clearing_reports, positioning_reports, settlement_confirmations,
                 tx_counter, total_possible_net, current_step, cash_account,
                 security_account, settle_trace>>
  /\ UNCHANGED outside

(***************************************************************************)
(* MatchingAgent (lines 640-661).                                          *)
(***************************************************************************)
\* lines 652-655: put instr into the slot of its transaction, creating the
\* entry {"Payment": None, "Security": None} at the end when there is none
InsertPair(mp, instr) ==
  LET tx == instr.transaction_id
      at == SelectIdx(mp, tx, 1)
      mp1 == IF at = <<>>
             THEN Append(mp, [transaction_id |-> tx, Payment |-> NoInstr,
                              Security |-> NoInstr])
             ELSE mp
      k == IF at = <<>> THEN Len(mp1) ELSE Head(at)
  IN IF instr.instruction_type = "Payment"
     THEN [mp1 EXCEPT ![k].Payment = instr]
     ELSE [mp1 EXCEPT ![k].Security = instr]

RECURSIVE InsertAll(_, _)
\* lines 649-655
InsertAll(q, mp) ==
  IF q = <<>> THEN mp
  ELSE IF Head(q).status = "Canceled" THEN InsertAll(Tail(q), mp)
  ELSE InsertAll(Tail(q), InsertPair(mp, Head(q)))

\* the test of the comprehension asking for one filled slot only
IsComplete_eitherSlot(pair) ==
  /\ pair.Payment # NoInstr \/ pair.Security # NoInstr
  /\ pair.Payment = NoInstr \/ pair.Payment.status # "Canceled"
  /\ pair.Security = NoInstr \/ pair.Security.status # "Canceled"

\* lines 657-659: the test of the dict comprehension
IsComplete(pair) ==
  /\ pair.Payment # NoInstr
  /\ pair.Security # NoInstr
  /\ pair.Payment.status # "Canceled"
  /\ pair.Security.status # "Canceled"

\* MatchingAgent.step
MatchingStep ==
  /\ MatchingId \notin stepped
  /\ LET filled == InsertAll(validated_instructions, matched_pairs)
         complete == SelectSeq(filled, IsComplete)
     IN matched_pairs' = complete
  /\ validated_instructions' = <<>>
  /\ stepped' = stepped \cup {MatchingId}
  /\ UNCHANGED <<instructions, clearing_reports, positioning_reports,
                 settlement_confirmations, tx_counter, total_possible_net,
                 current_step, cash_account, security_account, inbox, logs,
                 settle_trace>>
  /\ UNCHANGED outside

(***************************************************************************)
(* ClearingAgent (lines 663-686).                                          *)
(***************************************************************************)
\* a clearing report that takes payer and deliverer from the wrong legs
ClearingReport_swapParties(pair) ==
  LET payment == pair.Payment
      net_amount == payment.quantity * payment.price
  IN [transaction_id |-> pair.transaction_id,
      payer |-> pair.Security.sendingInstitution,
      deliverer |-> payment.sendingInstitution,
      quantity |-> payment.quantity,
      price |-> payment.price,
      net_amount |-> net_amount,
      risk |-> net_amount * 5]

\* a clearing report that counts the net amount twice
ClearingReport_doubleNet(pair) ==
  LET payment == pair.Payment
      net_amount == 2 * payment.quantity * payment.price
  IN [transaction_id |-> pair.transaction_id,
      payer |-> payment.sendingInstitution,
      deliverer |-> pair.Security.sendingInstitution,
      quantity |-> payment.quantity,
      price |-> payment.price,
      net_amount |-> net_amount,
      risk |-> net_amount * 5]

\* ClearingReport of a pair (lines 677-681); risk = net_amount * 0.05 is kept
\* in hundredths
ClearingReport(pair) ==
  LET payment == pair.Payment
      net_amount == payment.quantity * payment.price
  IN [transaction_id |-> pair.transaction_id,
      payer |-> payment.sendingInstitution,
      deliverer |-> pair.Security.sendingInstitution,
      quantity |-> payment.quantity,
      price |-> payment.price,
      net_amount |-> net_amount,
      risk |-> net_amount * 5]

RECURSIVE ClearAll_noStatusTest(_, _)
\* the loop without the test of line 673
ClearAll_noStatusTest(mp, st) ==
  IF mp = <<>> THEN st
  ELSE LET pair == Head(mp)
           tx == pair.transaction_id
           report == ClearingReport(pair)
       IN ClearAll_noStatusTest(Tail(mp),
            [cr |-> Append(st.cr, report),
             tpn |-> st.tpn + report.net_amount,
             lg |-> Log(st.lg, LogRow(ClearingId, "ClearingReport", tx, "", "",
                                      report.net_amount, report.risk))])

RECURSIVE ClearAll_assignNet(_, _)
\* the loop with total_possible_net = net_amount where line 683 says +=
ClearAll_assignNet(mp, st) ==
  IF mp = <<>> THEN st
  ELSE LET pair == Head(mp)
           tx == pair.transaction_id
           next ==
             IF pair.Payment.status = "Canceled" \/ pair.Security.status = "Canceled"
             THEN [st EXCEPT !.lg = Log(@, LogRow(ClearingId, "CanceledPair",
                                                  tx, "", "", 0, 0))]
             ELSE LET report == ClearingReport(pair)
                  IN [cr |-> Append(st.cr, report),
                      tpn |-> report.net_amount,
                      lg |-> Log(st.lg, LogRow(ClearingId, "ClearingReport", tx, "", "",
                                               report.net_amount, report.risk))]
       IN ClearAll_assignNet(Tail(mp), next)

RECURSIVE ClearAll(_, _)
\* the loop of ClearingAgent.step over the pairs, in dict order
ClearAll(mp, st) ==
  IF mp = <<>> THEN st
  ELSE LET pair == Head(mp)
           tx == pair.transaction_id
           next ==
             IF pair.Payment.status = "Canceled" \/ pair.Security.status = "Canceled"
             THEN [st EXCEPT !.lg = Log(@, LogRow(ClearingId, "CanceledPair",
                                                  tx, "", "", 0, 0))]
             ELSE LET report == ClearingReport(pair)
                  IN [cr |-> Append(st.cr, report),
                      tpn |-> st.tpn + report.net_amount,
                      lg |-> Log(st.lg, LogRow(ClearingId, "ClearingReport", tx, "", "",
                                               report.net_amount, report.risk))]
       IN ClearAll(Tail(mp), next)

\* ClearingAgent.step.  Reading pair["Payment"].status of an empty slot raises
\* AttributeError; the step is not taken from such a state.
ClearingStep ==
  /\ ClearingId \notin stepped
  /\ \A k \in DOMAIN matched_pairs :
       matched_pairs[k].Payment # NoInstr /\ matched_pairs[k].Security # NoInstr
  /\ LET st == ClearAll(matched_pairs, [cr |-> clearing_reports,
                                        tpn |-> total_possible_net, lg |-> logs])
     IN /\ clearing_reports' = st.cr
        /\ total_possible_net' = st.tpn
        /\ logs' = st.lg
  /\ matched_pairs' = <<>>
  /\ stepped' = stepped \cup {ClearingId}
  /\ UNCHANGED <<instructions, validated_instructions, positioning_reports,
                 settlement_confirmations, tx_counter, current_step, cash_account,
                 security_account, inbox, settle_trace>>
  /\ UNCHANGED outside

(***************************************************************************)
(* PositioningAgent (lines 688-704).                                       *)
(***************************************************************************)
\* PositioningReport of a clearing report (lines 698-699)
PositioningReport(report) ==
  [transaction_id |-> report.transaction_id, payer |-> report.payer,
   deliverer |-> report.deliverer, quantity |-> report.quantity,
   net_amount |-> report.net_amount, timestamp |-> current_step]

\* a positioning step that produces no report
PositionAll_none(cr, st) == st

RECURSIVE PositionAll(_, _)
PositionAll(cr, st) ==
  IF cr = <<>> THEN st
  ELSE LET pos_report == PositioningReport(Head(cr))
       IN PositionAll(Tail(cr),
            [pr |-> Append(st.pr, pos_report),
             lg |-> Log(st.lg, LogRow(PositioningId, "PositioningReport",
                                      pos_report.transaction_id, "", "",
                                      pos_report.quantity, pos_report.net_amount))])

\* a positioning step without line 703: the clearing reports stay in the queue
PositioningStep_keepReports ==
  /\ PositioningId \notin stepped
  /\ LET st == PositionAll(clearing_reports, [pr |-> positioning_reports, lg |-> logs])
     IN /\ positioning_reports' = st.pr
        /\ logs' = st.lg
  /\ stepped' = stepped \cup {PositioningId}
  /\ UNCHANGED <<instructions, validated_instructions, matched_pairs, clearing_reports,
                 settlement_confirmations, tx_counter, total_possible_net,
                 current_step, cash_account, security_account, inbox, settle_trace>>
  /\ UNCHANGED outside

\* PositioningAgent.step
PositioningStep ==
  /\ PositioningId \notin stepped
  /\ LET st == PositionAll(clearing_reports, [pr |-> positioning_reports, lg |-> logs])
     IN /\ positioning_reports' = st.pr
        /\ logs' = st.lg
  /\ clearing_reports' = <<>>
  /\ stepped' = stepped \cup {PositioningId}
  /\ UNCHANGED <<instructions, validated_instructions, matched_pairs,
                 settlement_confirmations, tx_counter, total_possible_net,
                 current_step, cash_account, security_account, inbox, settle_trace>>
  /\ UNCHANGED outside

(***************************************************************************)
(* SettlementAgent (lines 706-757).                                        *)
(***************************************************************************)
\* line 723
ReportPrice(net_amount, quantity) ==
  IF quantity # 0 THEN net_amount \div quantity ELSE 0

\* the cash-side check without line 731: the quantity is not recomputed
CashCheck_keepQuantity(balance, net_amount, quantity, price) ==
  IF ~check_balance(balance, CashMin, net_amount)
  THEN LET allowed_cash == balance - CashMin
       IN IF allowed_cash <= 0
          THEN [skip |-> TRUE, net_amount |-> net_amount, quantity |-> quantity,
                adjusted |-> FALSE]
          ELSE [skip |-> FALSE, net_amount |-> allowed_cash,
                quantity |-> quantity, adjusted |-> TRUE]
  ELSE [skip |-> FALSE, net_amount |-> net_amount, quantity |-> quantity,
        adjusted |-> FALSE]

\* lines 725-732: the cash-side check.  skip: the report is skipped.
CashCheck(balance, net_amount, quantity, price) ==
  IF ~check_balance(balance, CashMin, net_amount)
  THEN LET allowed_cash == balance - CashMin
       IN IF allowed_cash <= 0
          THEN [skip |-> TRUE, net_amount |-> net_amount, quantity |-> quantity,
                adjusted |-> FALSE]
          ELSE [skip |-> FALSE, net_amount |-> allowed_cash,
                quantity |-> allowed_cash \div price, adjusted |-> TRUE]
  ELSE [skip |-> FALSE, net_amount |-> net_amount, quantity |-> quantity,
        adjusted |-> FALSE]

\* the security-side check without the clamp of lines 738-740
SecurityCheck_noClamp(balance, c, price) ==
  IF ~check_balance(balance, SecMin, c.quantity)
  THEN LET allowed_qty == balance - SecMin
       IN IF allowed_qty <= 0
          THEN [c EXCEPT !.skip = TRUE]
          ELSE c
  ELSE c

\* the security-side check without line 739: the net amount is not recomputed
SecurityCheck_keepNet(balance, c, price) ==
  IF ~check_balance(balance, SecMin, c.quantity)
  THEN LET allowed_qty == balance - SecMin
       IN IF allowed_qty <= 0
          THEN [c EXCEPT !.skip = TRUE]
          ELSE [skip |-> FALSE, net_amount |-> c.net_amount,
                quantity |-> allowed_qty, adjusted |-> TRUE]
  ELSE c

\* lines 733-740: the security-side check, on the outcome c of the cash check
SecurityCheck(balance, c, price) ==
  IF ~check_balance(balance, SecMin, c.quantity)
  THEN LET allowed_qty == balance - SecMin
       IN IF allowed_qty <= 0
          THEN [c EXCEPT !.skip = TRUE]
          ELSE [skip |-> FALSE, net_amount |-> allowed_qty * price,
                quantity |-> allowed_qty, adjusted |-> TRUE]
  ELSE c

SettlementConfirmation(tx, settlement_status, quantity, net_amount) ==
  [transaction_id |-> tx, settlement_status |-> settlement_status,
   adjusted_quantity |-> quantity, adjusted_net_amount |-> net_amount]

\* one row of settle_trace: the report, the balances before and after it,
\* and how it ended
TraceRow(report, st, cash, sec, outcome, quantity, net_amount) ==
  [report |-> report, cash_before |-> st.cash, sec_before |-> st.sec,
   cash_after |-> cash, sec_after |-> sec, outcome |-> outcome,
   quantity |-> quantity, net_amount |-> net_amount]

\* the body of the loop of SettlementAgent.step for one report (lines 719-755)
SettleReport(st, report) ==
  LET payer == report.payer
      deliverer == report.deliverer
      tx == report.transaction_id
      price == ReportPrice(report.net_amount, report.quantity)
      c == CashCheck(st.cash[payer], report.net_amount, report.quantity, price)
      d == SecurityCheck(st.sec[deliverer], c, price)
      net_amount == d.net_amount
      quantity == d.quantity
      \* payer.cash_account.withdraw, payer.security_account.deposit
      cash1 == [st.cash EXCEPT ![payer] = withdraw(@, CashMin, net_amount)]
      sec1 == [st.sec EXCEPT ![payer] = deposit(@, quantity)]
      \* deliverer.cash_account.deposit, deliverer.security_account.withdraw
      cash2 == [cash1 EXCEPT ![deliverer] = deposit(@, net_amount)]
      sec2 == [sec1 EXCEPT ![deliverer] = withdraw(@, SecMin, quantity)]
      settlement_status == IF d.adjusted THEN "Partial" ELSE "Full"
  IN IF c.skip
     THEN [st EXCEPT
             !.lg = Log(@, LogRow(SettlementId, "SettlementSkipped", tx, "", "cash",
                                  payer, 0)),
             !.trace = Append(@, TraceRow(report, st, st.cash, st.sec, "Skipped", 0, 0))]
     ELSE IF d.skip
     THEN [st EXCEPT
             !.lg = Log(@, LogRow(SettlementId, "SettlementSkipped", tx, "",
                                  "securities", deliverer, 0)),
             !.trace = Append(@, TraceRow(report, st, st.cash, st.sec, "Skipped", 0, 0))]
     ELSE IF ~check_balance(st.cash[payer], CashMin, net_amount)
     THEN [st EXCEPT
             !.lg = Log(@, LogRow(SettlementId, "SettlementFailed", tx, "", "cash",
                                  payer, 0)),
             !.trace = Append(@, TraceRow(report, st, st.cash, st.sec, "Failed", 0, 0))]
     ELSE IF ~check_balance(sec1[deliverer], SecMin, quantity)
     THEN [st EXCEPT
             !.cash = cash2,
             !.sec = sec1,
             !.lg = Log(@, LogRow(SettlementId, "SettlementFailed", tx, "",
                                  "securities", deliverer, 0)),
             !.trace = Append(@, TraceRow(report, st, cash2, sec1, "Failed", 0, 0))]
     ELSE [cash |-> cash2,
           sec |-> sec2,
           conf |-> Append(st.conf, SettlementConfirmation(tx, settlement_status,
                                                           quantity, net_amount)),
           box |-> LET m == Message("settlement_confirmation", tx, "", settlement_status)
                       b1 == [st.box EXCEPT ![payer] = Append(@, m)]
                   IN [b1 EXCEPT ![deliverer] = Append(@, m)],
           lg |-> Log(st.lg, LogRow(SettlementId, "SettledTransaction", tx, "",
                                    settlement_status, quantity, net_amount)),
           trace |-> Append(st.trace, TraceRow(report, st, cash2, sec2,
                                               settlement_status, quantity, net_amount))]

RECURSIVE SettleAll_stopAtSkip(_, _)
\* the loop with break where lines 729 and 737 say continue
SettleAll_stopAtSkip(pr, st) ==
  IF pr = <<>> THEN st
  ELSE LET st1 == SettleReport(st, Head(pr))
       IN IF st1.trace[Len(st1.trace)].outcome = "Skipped" THEN st1
          ELSE SettleAll_stopAtSkip(Tail(pr), st1)

RECURSIVE SettleAll(_, _)
\* the loop of SettlementAgent.step, in queue order
SettleAll(pr, st) ==
  IF pr = <<>> THEN st ELSE SettleAll(Tail(pr), SettleReport(st, Head(pr)))

\* SettlementAgent.step
SettlementStep ==
  /\ SettlementId \notin stepped
  /\ LET st == SettleAll(positioning_reports,
                         [cash |-> cash_account, sec |-> security_account,
                          conf |-> settlement_confirmations, box |-> inbox,
                          lg |-> logs, trace |-> <<>>])
     IN /\ cash_account' = st.cash
        /\ security_account' = st.sec
        /\ settlement_confirmations' = st.conf
        /\ inbox' = st.box
        /\ logs' = st.lg
        /\ settle_trace' = st.trace
  /\ positioning_reports' = <<>>
  /\ stepped' = stepped \cup {SettlementId}
  /\ UNCHANGED <<instructions, validated_instructions, matched_pairs,
                 clearing_reports, tx_counter, total_possible_net, current_step>>
  /\ UNCHANGED outside

(***************************************************************************)
(* SettlementModel (lines 760-801).                                        *)
(***************************************************************************)
\* SettlementModel.step: current_step += 1, then RandomActivation runs every
\* agent once in a shuffled order: any agent not yet run this tick may be next.
TickUpTo(maxTicks) ==
  /\ stepped = Agents
  /\ current_step < maxTicks
  /\ current_step' = current_step + 1
  /\ stepped' = {}
  /\ UNCHANGED <<instructions, validated_instructions, matched_pairs,
                 clearing_reports, positioning_reports, settlement_confirmations,
                 tx_counter, total_possible_net, cash_account, security_account,
                 inbox, logs, settle_trace>>
  /\ UNCHANGED outside

\* SettlementModel.__init__ (lines 269-270): both logs empty
LogIdle ==
  /\ event_log = <<>>
  /\ activity_log = <<>>
  /\ now = 0
  /\ children = <<>>

\* the transaction-agent simulator's variables while the pipeline runs
TxnIdle ==
  /\ LogIdle
  /\ cashBalance = <<>>
  /\ creditLimit = <<>>
  /\ securities = <<>>
  /\ allow_partial = <<>>
  /\ transactions = <<>>
  /\ last_call = <<>>

\* SettlementModel.__init__ with the accounts as earlier settlements left them:
\* institution 1 at any of the sampled balances, the others well funded
Init ==
  /\ instructions = <<>>
  /\ validated_instructions = <<>>
  /\ matched_pairs = <<>>
  /\ clearing_reports = <<>>
  /\ positioning_reports = <<>>
  /\ settlement_confirmations = <<>>
  /\ tx_counter = 1
  /\ total_possible_net = 0
  /\ current_step = 0
  /\ stepped = Agents
  /\ \E c \in CashSlack, q \in SecSlack :
       /\ cash_account = [i \in Institutions |->
                           IF i = 1 THEN CashMin + c ELSE RichCash]
       /\ security_account = [i \in Institutions |->
                               IF i = 1 THEN SecMin + q ELSE RichSec]
  /\ inbox = [i \in Institutions |-> <<>>]
  /\ logs = EmptyBag
  /\ settle_trace = <<>>
  /\ submitted = {}
  /\ runs = <<>>
  /\ TxnIdle

Tick == TickUpTo(MaxTicks)

InstitutionStep(i) == InstitutionAct(i, MaxTx, MaxCancel)

Next ==
  \/ Tick
  \/ \E i \in Institutions : InstitutionStep(i)
  \/ ValidationStep
  \/ MatchingStep
  \/ ClearingStep
  \/ PositioningStep
  \/ SettlementStep

Spec == Init /\ [][Next]_vars

\* The same model from accounts that earlier settlements have run down on
\* both sides: institution 1 with cash at, or a little above, its minimum and
\* institution 2 with securities at, or a little above, its minimum.
TightCash == {0, 100, 1000}
TightSec == {0, 5}

InitTight ==
  /\ instructions = <<>>
  /\ validated_instructions = <<>>
  /\ matched_pairs = <<>>
  /\ clearing_reports = <<>>
  /\ positioning_reports = <<>>
  /\ settlement_confirmations = <<>>
  /\ tx_counter = 1
  /\ total_possible_net = 0
  /\ current_step = 0
  /\ stepped = Agents
  /\ \E c \in TightCash, q \in TightSec :
       /\ cash_account = [i \in Institutions |->
                           IF i = 1 THEN CashMin + c ELSE RichCash]
       /\ security_account = [i \in Institutions |->
                               IF i = 2 THEN SecMin + q ELSE RichSec]
  /\ inbox = [i \in Institutions |-> <<>>]
  /\ logs = EmptyBag
  /\ settle_trace = <<>>
  /\ submitted = {}
  /\ runs = <<>>
  /\ TxnIdle

SpecTight == InitTight /\ [][Next]_vars

\* The same model followed for TimedTicks ticks with one transaction and no
\* cancellation, from well funded accounts: long enough to see a transaction
\* submitted in the first ticks leave the last stage.
InitTimed ==
  /\ Init
  /\ cash_account = [i \in Institutions |-> RichCash]
  /\ security_account = [i \in Institutions |-> RichSec]

TimedTick == TickUpTo(TimedTicks)

TimedInstitutionStep(i) == InstitutionAct(i, 1, 0)

NextTimed ==
  \/ TimedTick
  \/ \E i \in Institutions : TimedInstitutionStep(i)
  \/ ValidationStep
  \/ MatchingStep
  \/ ClearingStep
  \/ PositioningStep
  \/ SettlementStep

SpecTimed == InitTimed /\ [][NextTimed]_vars

\* The same model with whoever holds a reference to an instruction calling
\* its cancel() while the instruction waits in matched_pairs: the one way a
\* Canceled leg can be in a pair when ClearingAgent.step runs, since
\* process_cancel_instruction deletes the pair it cancels (line 611).
HolderCancel(k, kind) ==
  /\ k \in DOMAIN matched_pairs
  /\ matched_pairs[k][kind] # NoInstr
  /\ matched_pairs' = [matched_pairs EXCEPT ![k][kind] = cancel(@)]
  /\ UNCHANGED <<instructions, validated_instructions, clearing_reports,
                 positioning_reports, settlement_confirmations, tx_counter,
                 total_possible_net, current_step, stepped, cash_account,
                 security_account, inbox, logs, settle_trace>>
  /\ UNCHANGED outside

HeldInstitutionStep(i) == InstitutionAct(i, MaxTx, 0)

NextHeld ==
  \/ Tick
  \/ \E i \in Institutions : HeldInstitutionStep(i)
  \/ \E k \in 1..MaxTx, kind \in {"Payment", "Security"} : HolderCancel(k, kind)
  \/ ValidationStep
  \/ MatchingStep
  \/ ClearingStep
  \/ PositioningStep
  \/ SettlementStep

SpecHeld == InitTimed /\ [][NextHeld]_vars

\* The pipeline fed through its incoming queue, SettlementModel.instructions
\* (line 781), by a producer that appends one instruction at a time: a leg of a
\* transaction or a cancellation, each at most once, between any two agent
\* steps.  The institutions only read their inboxes.
OpenTxIds == 1..OpenTx

\* quantity and price of an appended leg: the terms the institutions draw, and
\* terms that validate() rejects
OpenTerms ==
  {<<quantity, price>> : quantity \in Quantities, price \in Prices}
  \cup {<<0, price>> : price \in Prices}
  \cup {<<quantity, 0>> : quantity \in Quantities}

\* the instruction appended: as in lines 549-564 the payer sends the Payment
\* leg and the deliverer the Security leg; institution 1 pays, 2 delivers
OpenLeg(tx, kind, quantity, price) ==
  IF kind = "Payment"
  THEN SettlementInstruction(tx, "Payment", quantity, price, 1, 2, current_step)
  ELSE IF kind = "Security"
  THEN SettlementInstruction(tx, "Security", quantity, price, 2, 1, current_step)
  ELSE CancelInstruction(tx, 1, current_step)

Arrive(tx, kind, quantity, price) ==
  /\ \A e \in submitted : ~(e.transaction_id = tx /\ e.kind = kind)
  /\ instructions' = Append(instructions, OpenLeg(tx, kind, quantity, price))
  /\ submitted' = submitted \cup {Submission(tx, kind)}
  /\ UNCHANGED <<validated_instructions, matched_pairs, clearing_reports,
                 positioning_reports, settlement_confirmations, tx_counter,
                 total_possible_net, current_step, stepped, cash_account,
                 security_account, inbox, logs, settle_trace, txnVars, logVars,
                 moreVars>>

OpenTick == TickUpTo(OpenTicks)

OpenInstitutionStep(i) == InstitutionAct(i, 0, 0)

NextOpen ==
  \/ OpenTick
  \/ \E tx \in OpenTxIds, kind \in {"Payment", "Security", "Cancel"},
        terms \in OpenTerms : Arrive(tx, kind, terms[1], terms[2])
  \/ \E i \in Institutions : OpenInstitutionStep(i)
  \/ ValidationStep
  \/ MatchingStep
  \/ ClearingStep
  \/ PositioningStep
  \/ SettlementStep

SpecOpen == InitTimed /\ [][NextOpen]_vars

\* the pipeline's variables while the transaction-agent simulator runs
PipeIdle ==
  /\ instructions = <<>>
  /\ validated_instructions = <<>>
  /\ matched_pairs = <<>>
  /\ clearing_reports = <<>>
  /\ positioning_reports = <<>>
  /\ settlement_confirmations = <<>>
  /\ tx_counter = 1
  /\ total_possible_net = 0
  /\ current_step = 0
  /\ stepped = Agents
  /\ cash_account = [i \in Institutions |-> RichCash]
  /\ security_account = [i \in Institutions |-> RichSec]
  /\ inbox = [i \in Institutions |-> <<>>]
  /\ logs = EmptyBag
  /\ settle_trace = <<>>
  /\ submitted = {}

(***************************************************************************)
(* Two runs of the pipeline side by side.  Both are fed the same           *)
(* instructions between the same ticks; in each tick run a takes the five  *)
(* stage steps in any order and run b in the order of the agent ids.       *)
(***************************************************************************)
\* the queues, confirmations and balances of one run
PipeState(cash, sec) ==
  [ins |-> <<>>, val |-> <<>>, mp |-> <<>>, cr |-> <<>>, pr |-> <<>>,
   conf |-> <<>>, cash |-> cash, sec |-> sec]

NoInbox == [i \in Institutions |-> <<>>]

\* ValidationAgent.step on the queues of s
ValidationOn(s) ==
  LET st1 == ProcessCancels(1, [ins |-> s.ins, val |-> s.val, mp |-> s.mp,
                                lg |-> EmptyBag])
      remaining_instructions ==
        SelectSeq(st1.ins, LAMBDA x : x.instruction_type # "Cancel")
      st2 == ValidateAll(remaining_instructions,
                         [val |-> st1.val, box |-> NoInbox, lg |-> EmptyBag])
  IN [s EXCEPT !.ins = <<>>, !.val = st2.val, !.mp = st1.mp]

\* MatchingAgent.step on the queues of s
MatchingOn(s) ==
  [s EXCEPT !.mp = SelectSeq(InsertAll(s.val, s.mp), IsComplete), !.val = <<>>]

\* ClearingAgent.step on the queues of s
ClearingOn(s) ==
  LET st == ClearAll(s.mp, [cr |-> s.cr, tpn |-> 0, lg |-> EmptyBag])
  IN [s EXCEPT !.cr = st.cr, !.mp = <<>>]

\* PositioningAgent.step on the queues of s
PositioningOn(s) ==
  LET st == PositionAll(s.cr, [pr |-> s.pr, lg |-> EmptyBag])
  IN [s EXCEPT !.pr = st.pr, !.cr = <<>>]

\* SettlementAgent.step on the queues and balances of s
SettlementOn(s) ==
  LET st == SettleAll(s.pr, [cash |-> s.cash, sec |-> s.sec, conf |-> s.conf,
                             box |-> NoInbox, lg |-> EmptyBag, trace |-> <<>>])
  IN [s EXCEPT !.cash = st.cash, !.sec = st.sec, !.conf = st.conf, !.pr = <<>>]

StageOn(agent, s) ==
  IF agent = ValidationId THEN ValidationOn(s)
  ELSE IF agent = MatchingId THEN MatchingOn(s)
  ELSE IF agent = ClearingId THEN ClearingOn(s)
  ELSE IF agent = PositioningId THEN PositioningOn(s)
  ELSE SettlementOn(s)

RECURSIVE RunOrder(_, _)
\* one tick: the stage steps in the order RandomActivation drew
RunOrder(order, s) ==
  IF order = <<>> THEN s ELSE RunOrder(Tail(order), StageOn(Head(order), s))

\* the orders RandomActivation can draw for the five stages
StageOrders ==
  {o \in [1..Cardinality(Stages) -> Stages] : \A j, k \in DOMAIN o : o[j] = o[k] => j = k}

IdOrder == <<ValidationId, MatchingId, ClearingId, PositioningId, SettlementId>>

OrderTxIds == 1..OrderTx

\* what may reach the incoming queue between two ticks: nothing, one leg, or
\* the two legs of a transaction as an institution appends them
Batches(fed) ==
  {<<>>}
  \cup {<<k>> : k \in (OrderTxIds \X {"Payment", "Security"}) \ fed}
  \cup {<<<<tx, "Payment">>, <<tx, "Security">>>> :
          tx \in {t \in OrderTxIds : <<t, "Payment">> \notin fed /\ <<t, "Security">> \notin fed}}

RECURSIVE Feed(_, _, _, _)
\* the batch appended to the incoming queue; institution 1 pays, 2 delivers
Feed(s, batch, quantity, price) ==
  IF batch = <<>> THEN s
  ELSE Feed([s EXCEPT !.ins = Append(@, OpenLeg(Head(batch)[1], Head(batch)[2],
                                               quantity, price))],
            Tail(batch), quantity, price)

InitOrder ==
  /\ PipeIdle
  /\ TxnIdle
  /\ \E c \in CashSlack, q \in SecSlack :
       LET s == PipeState([i \in Institutions |-> IF i = 1 THEN CashMin + c ELSE RichCash],
                          [i \in Institutions |-> IF i = 1 THEN SecMin + q ELSE RichSec])
       IN runs = [a |-> s, b |-> s, fed |-> {}, ticks |-> 0]

\* the arrivals of one gap and the tick that follows, in both runs
OrderedTick(batch, order, quantity, price) ==
  /\ runs.ticks < OrderTicks
  /\ runs' = [a |-> RunOrder(order, Feed(runs.a, batch, quantity, price)),
              b |-> RunOrder(IdOrder, Feed(runs.b, batch, quantity, price)),
              fed |-> runs.fed \cup {batch[k] : k \in DOMAIN batch},
              ticks |-> runs.ticks + 1]
  /\ UNCHANGED <<pipeVars, submitted, txnVars, logVars, children>>

NextOrder ==
  \E batch \in Batches(runs.fed), order \in StageOrders,
     quantity \in Quantities, price \in Prices :
    OrderedTick(batch, order, quantity, price)

SpecOrder == InitOrder /\ [][NextOrder]_vars

(***************************************************************************)
(* The transaction-agent simulator (lines 8-380).                          *)
(***************************************************************************)
Accounts == 1..NumAccounts
Txns == 1..NumTxn
\* "bond" is the type generate_sample_data uses; a second type is there to
\* see that a call leaves the other holdings alone
SecurityTypes == {"bond", "note"}
\* the empty securities dict of AccountAgent.__init__
EmptyDict == [x \in {} |-> 0]

\* self.securities.get(securityType, 0)
Held(sec, securityType) ==
  IF securityType \in DOMAIN sec THEN sec[securityType] ELSE 0

\* AccountAgent.checkSufficientCash
checkSufficientCash(cash, credit, amount) == cash + credit >= amount

\* AccountAgent.checkSufficientSecurities
checkSufficientSecurities(sec, securityType, amount) ==
  Held(sec, securityType) >= amount

\* updateCashBalance without the test of line 48
updateCashBalance_noCheck(cash, credit, amount) ==
  IF cash + amount >= 0
  THEN [cashBalance |-> cash + amount, creditLimit |-> credit, ret |-> amount]
  ELSE [cashBalance |-> 0, creditLimit |-> credit + (amount + cash), ret |-> amount]

\* updateCashBalance refusing also the debit that uses up cash and credit exactly
updateCashBalance_offByOne(cash, credit, amount) ==
  IF amount < 0 /\ cash + credit + amount <= 0
  THEN [cashBalance |-> cash, creditLimit |-> credit, ret |-> 0]
  ELSE updateCashBalance_noCheck(cash, credit, amount)

\* updateCashBalance charging the whole debit, not the deficit, to the credit limit
updateCashBalance_wholeDebit(cash, credit, amount) ==
  IF amount < 0 /\ cash + credit + amount < 0
  THEN [cashBalance |-> cash, creditLimit |-> credit, ret |-> 0]
  ELSE IF cash + amount >= 0
  THEN [cashBalance |-> cash + amount, creditLimit |-> credit, ret |-> amount]
  ELSE [cashBalance |-> 0, creditLimit |-> credit + amount, ret |-> amount]

\* updateCashBalance paying a credit into the credit limit first
updateCashBalance_toCredit(cash, credit, amount) ==
  IF amount < 0 /\ cash + credit + amount < 0
  THEN [cashBalance |-> cash, creditLimit |-> credit, ret |-> 0]
  ELSE IF amount > 0 /\ cash = 0
  THEN [cashBalance |-> cash, creditLimit |-> credit + amount, ret |-> amount]
  ELSE IF cash + amount >= 0
  THEN [cashBalance |-> cash + amount, creditLimit |-> credit, ret |-> amount]
  ELSE [cashBalance |-> 0, creditLimit |-> credit + (amount + cash), ret |-> amount]

\* AccountAgent.updateCashBalance: the new cashBalance and creditLimit and the
\* value returned
updateCashBalance(cash, credit, amount) ==
  LET total_available == cash + credit
  IN IF amount < 0 /\ total_available + amount < 0
     THEN [cashBalance |-> cash, creditLimit |-> credit, ret |-> 0]
     ELSE IF cash + amount >= 0
     THEN [cashBalance |-> cash + amount, creditLimit |-> credit, ret |-> amount]
     ELSE LET remaining == amount + cash
          IN [cashBalance |-> 0, creditLimit |-> credit + remaining, ret |-> amount]

\* updateSecurities storing the outcome of a debit in a fresh dict
updateSecurities_freshDict(sec, securityType, amount) ==
  IF Held(sec, securityType) + amount < 0
  THEN [securities |-> sec, ret |-> 0]
  ELSE IF amount < 0
  THEN [securities |-> (securityType :> (Held(sec, securityType) + amount)),
        ret |-> amount]
  ELSE [securities |-> (securityType :> (Held(sec, securityType) + amount)) @@ sec,
        ret |-> amount]

\* AccountAgent.updateSecurities: the new securities dict and the value returned
updateSecurities(sec, securityType, amount) ==
  LET current_amount == Held(sec, securityType)
  IN IF current_amount + amount < 0
     THEN [securities |-> sec, ret |-> 0]
     ELSE [securities |-> (securityType :> (current_amount + amount)) @@ sec,
           ret |-> amount]

\* the record kept of a ledger call
LedgerCall(op, a, securityType, amount, ret) ==
  [op |-> op, account |-> a, securityType |-> securityType, amount |-> amount,
   ret |-> ret, cash_before |-> cashBalance[a], credit_before |-> creditLimit[a],
   held_before |-> Held(securities[a], securityType)]

NoCall ==
  [op |-> "", account |-> 0, securityType |-> "", amount |-> 0, ret |-> 0,
   cash_before |-> 0, credit_before |-> 0, held_before |-> 0]

\* a caller's account.updateCashBalance(amount)
UpdateCashCall(a, amount) ==
  LET r == updateCashBalance(cashBalance[a], creditLimit[a], amount)
  IN /\ r.cashBalance <= MaxBalance
     /\ cashBalance' = [cashBalance EXCEPT ![a] = r.cashBalance]
     /\ creditLimit' = [creditLimit EXCEPT ![a] = r.creditLimit]
     /\ last_call' = LedgerCall("updateCashBalance", a, "", amount, r.ret)
     /\ UNCHANGED <<securities, allow_partial, transactions, pipeVars, submitted,
                    logVars, moreVars>>

\* a caller's account.updateSecurities(securityType, amount)
UpdateSecuritiesCall(a, securityType, amount) ==
  LET r == updateSecurities(securities[a], securityType, amount)
  IN /\ Held(r.securities, securityType) <= MaxBalance
     /\ securities' = [securities EXCEPT ![a] = r.securities]
     /\ last_call' = LedgerCall("updateSecurities", a, securityType, amount, r.ret)
     /\ UNCHANGED <<cashBalance, creditLimit, allow_partial, transactions,
                    pipeVars, submitted, logVars, moreVars>>

\* InstitutionAgent.opt_out_partial / opt_in_partial: the new allow_partial
opt_out_partial(allow) == IF ~allow THEN allow ELSE FALSE
opt_in_partial(allow) == IF allow THEN allow ELSE TRUE

\* InstitutionAgent.step (lines 107-113), when the draw of line 109 toggles
InstitutionToggle(i) ==
  /\ allow_partial' = [allow_partial EXCEPT ![i] =
                         IF @ THEN opt_out_partial(@) ELSE opt_in_partial(@)]
  /\ UNCHANGED <<cashBalance, creditLimit, securities, transactions, last_call,
                 pipeVars, submitted, logVars, moreVars>>

\* account.participant: generate_sample_data gives institution i the account i
participant(a) == a

\* InstructionAgent.checkCash / checkSecurities: the role tests
checkCash(role) == role = "buyer"
checkSecurities(role) == role = "seller"

\* TransactionAgent.validate
validateTxn(state) == IF state = "Pending" THEN "Validated" ELSE state

\* a match that also takes up a Failed transaction again
matchTxn_reopen(state, buyer_role, seller_role) ==
  IF state \in {"Validated", "Failed"} /\ buyer_role = "buyer" /\ seller_role = "seller"
  THEN "Matched" ELSE state

\* TransactionAgent.match, for the roles the constructor call of
\* generate_sample_data gives (lines 346-349)
matchTxn(state, buyer_role, seller_role) ==
  IF state = "Validated" /\ buyer_role = "buyer" /\ seller_role = "seller"
  THEN "Matched" ELSE state

\* TransactionAgent.settle for a transaction in state Matched or
\* Partially_Settled, on the branch of line 231 that the role tests select:
\* the ledger after the two calls and the new state
settle(tr) ==
  LET b == updateCashBalance(cashBalance[tr.buyer], creditLimit[tr.buyer], -tr.amount)
      s == updateSecurities(securities[tr.seller], tr.securityType, -tr.amount)
      buyer_settled == b.ret
      seller_settled == s.ret
  IN [cashBalance |-> [cashBalance EXCEPT ![tr.buyer] = b.cashBalance],
      creditLimit |-> [creditLimit EXCEPT ![tr.buyer] = b.creditLimit],
      securities |-> [securities EXCEPT ![tr.seller] = s.securities],
      state |-> IF buyer_settled > 0 /\ seller_settled > 0 THEN "Settled" ELSE "Failed",
      call |-> LedgerCall("updateSecurities", tr.seller, tr.securityType,
                          -tr.amount, s.ret)]

\* TransactionAgent.step: validate, match and settle run in the same call as
\* the state advances (lines 253-260)
TransactionStep(t) ==
  LET tr == transactions[t]
      s1 == validateTxn(tr.state)
      s2 == matchTxn(s1, "buyer", "seller")
  IN /\ checkCash("buyer") /\ checkSecurities("seller")
     /\ IF s2 \in {"Matched", "Partially_Settled"}
        THEN LET r == settle(tr)
             IN /\ cashBalance' = r.cashBalance
                /\ creditLimit' = r.creditLimit
                /\ securities' = r.securities
                /\ transactions' = [transactions EXCEPT ![t].state = r.state]
                /\ last_call' = r.call
        ELSE /\ transactions' = [transactions EXCEPT ![t].state = s2]
             /\ UNCHANGED <<cashBalance, creditLimit, securities, last_call>>
     /\ UNCHANGED <<allow_partial, pipeVars, submitted, logVars, moreVars>>

\* one account of any small balance, credit limit and holdings, open to any
\* sequence of ledger calls
InitLedger ==
  /\ PipeIdle
  /\ cashBalance \in [Accounts -> 0..2]
  /\ \A a \in Accounts \ {1} : cashBalance[a] = 0
  /\ creditLimit \in [Accounts -> 0..2]
  /\ \A a \in Accounts \ {1} : creditLimit[a] = 0
  /\ securities \in [Accounts -> {EmptyDict, "bond" :> 2}]
  /\ \A a \in Accounts \ {1} : securities[a] = EmptyDict
  /\ allow_partial = [i \in Accounts |-> TRUE]
  /\ transactions = [t \in {} |-> 0]
  /\ last_call = NoCall
  /\ LogIdle
  /\ runs = <<>>

NextLedger ==
  \/ \E amount \in (-MaxAmount)..MaxAmount : UpdateCashCall(1, amount)
  \/ \E securityType \in SecurityTypes, amount \in (-MaxAmount)..MaxAmount :
       UpdateSecuritiesCall(1, securityType, amount)

SpecLedger == InitLedger /\ [][NextLedger]_vars

\* log_event (lines 292-305): the logs after the call.  The timestamp is the
\* clock formatted to the second.  The ledger and transaction steps above are
\* followed without their log_event calls; SpecLog follows log_event under
\* any sequence of calls.
log_event(message, agent_id, is_transaction) ==
  LET timestamp == now
      log_entry == [Timestamp |-> timestamp, AgentID |-> agent_id, Event |-> message]
      held == \E k \in DOMAIN event_log : event_log[k] = log_entry
  IN [event_log |-> IF is_transaction /\ ~held
                    THEN Append(event_log, log_entry) ELSE event_log,
      activity_log |-> Append(activity_log, log_entry)]

\* an agent's self.model.log_event(message, agent_id, is_transaction)
LogEventCall(message, agent_id, is_transaction) ==
  /\ Len(activity_log) < MaxLog
  /\ LET r == log_event(message, agent_id, is_transaction)
     IN /\ event_log' = r.event_log
        /\ activity_log' = r.activity_log
  /\ UNCHANGED <<now, cashBalance, creditLimit, securities, allow_partial,
                 transactions, last_call, pipeVars, submitted, moreVars>>

\* a second passes between two calls
ClockAdvance ==
  /\ now < MaxClock
  /\ now' = now + 1
  /\ UNCHANGED <<event_log, activity_log, cashBalance, creditLimit, securities,
                 allow_partial, transactions, last_call, pipeVars, submitted,
                 moreVars>>

LogMessages == {"Transaction 0 executing step", "Transaction 0 attempting to settle"}

InitLog == PipeIdle /\ TxnIdle /\ runs = <<>>

NextLog ==
  \/ \E message \in LogMessages, agent_id \in Accounts, is_transaction \in BOOLEAN :
       LogEventCall(message, agent_id, is_transaction)
  \/ ClockAdvance

SpecLog == InitLog /\ [][NextLog]_vars

\* the amounts and balances sampled for the transactions
TxnAmounts == {3, 5}
TxnCash == {0, 2, 5}
TxnCredit == {0, 2}

\* TransactionAgent.__init__ (state Pending) for the instructions of
\* generate_sample_data (lines 346-353)
TransactionAgent(seller, buyer, amount) ==
  [seller |-> seller, buyer |-> buyer, amount |-> amount, securityType |-> "bond",
   state |-> "Pending"]

\* SettlementModel with accounts and transactions as a workload hands them over
InitTxn ==
  /\ PipeIdle
  /\ cashBalance \in [Accounts -> TxnCash]
  /\ creditLimit \in [Accounts -> TxnCredit]
  /\ securities \in [Accounts -> {EmptyDict, "bond" :> 5}]
  /\ allow_partial = [i \in Accounts |-> TRUE]
  /\ transactions \in [Txns -> {TransactionAgent(s, b, amt) :
                                  s \in Accounts, b \in Accounts, amt \in TxnAmounts}]
  /\ \A t \in Txns : transactions[t].seller # transactions[t].buyer
  /\ last_call = NoCall
  /\ LogIdle
  /\ runs = <<>>

\* SettlementModel.step of the transaction-agent simulator (lines 357-363):
\* any scheduled agent may be drawn next, any number of times
NextTxn ==
  \/ \E t \in Txns : TransactionStep(t)
  \/ \E i \in Accounts : InstitutionToggle(i)

SpecTxn == InitTxn /\ [][NextTxn]_vars

(***************************************************************************)
(* InstructionAgent.createChildren (lines 130-175).                        *)
(***************************************************************************)
InstructionAgent(uniqueID, motherID, securityType, amount, isChild, status, role, account) ==
  [uniqueID |-> uniqueID, motherID |-> motherID, securityType |-> securityType,
   amount |-> amount, isChild |-> isChild, status |-> status, role |-> role,
   account |-> account]

\* the ids generate_sample_data gives the two instructions of transaction t
\* (lines 346-349), and f"{uniqueID}_n" for a child
InstructionId(role, t) == <<role, t>>
ChildId(uniqueID, n) == Append(uniqueID, n)

\* a Python bool where a number is expected
BoolAsInt(b) == IF b THEN 1 ELSE 0

\* createChildren of the instruction with this id, role, account and amount:
\* the ledger after the call and the children it has built.  In the buyer
\* branch the children are built and the account is debited (lines 135-143)
\* before line 146 raises AttributeError, an InstructionAgent having no
\* attribute model; what was done before stays done.  In the seller branch
\* available_securities is the result of checkSufficientSecurities (line 154).
createChildren(uniqueID, role, a, securityType, amount) ==
  LET same == [cashBalance |-> cashBalance, creditLimit |-> creditLimit,
               securities |-> securities, built |-> <<>>]
  IN IF role = "buyer" /\ ~checkSufficientCash(cashBalance[a], creditLimit[a], amount)
     THEN LET available_cash == cashBalance[a] + creditLimit[a]
              buyer_child1 == InstructionAgent(ChildId(uniqueID, 1), uniqueID,
                                securityType, available_cash, TRUE, "settled",
                                "buyer", a)
              buyer_child2 == InstructionAgent(ChildId(uniqueID, 2), uniqueID,
                                securityType, amount - available_cash, TRUE,
                                "pending", "buyer", a)
              r == updateCashBalance(cashBalance[a], creditLimit[a], -available_cash)
          IN IF available_cash > 0
             THEN [cashBalance |-> [cashBalance EXCEPT ![a] = r.cashBalance],
                   creditLimit |-> [creditLimit EXCEPT ![a] = r.creditLimit],
                   securities |-> securities,
                   built |-> <<buyer_child1, buyer_child2>>]
             ELSE same
     ELSE IF role = "seller"
             /\ ~checkSufficientSecurities(securities[a], securityType, amount)
     THEN LET available_securities ==
                BoolAsInt(checkSufficientSecurities(securities[a], securityType, amount))
              seller_child1 == InstructionAgent(ChildId(uniqueID, 1), uniqueID,
                                 securityType, available_securities, TRUE,
                                 "settled", "seller", a)
              seller_child2 == InstructionAgent(ChildId(uniqueID, 2), uniqueID,
                                 securityType, amount - available_securities, TRUE,
                                 "pending", "seller", a)
              r == updateSecurities(securities[a], securityType, -available_securities)
          IN IF available_securities > 0
             THEN [cashBalance |-> cashBalance, creditLimit |-> creditLimit,
                   securities |-> [securities EXCEPT ![a] = r.securities],
                   built |-> <<seller_child1, seller_child2>>]
             ELSE same
     ELSE same

\* the account of the instruction of transaction t with this role
AccountOf(t, role) ==
  IF role = "buyer" THEN transactions[t].buyer ELSE transactions[t].seller

\* a caller's createChildren() on the buyer or seller instruction of t
CreateChildrenCall(t, role) ==
  LET tr == transactions[t]
      r == createChildren(InstructionId(role, t), role, AccountOf(t, role),
                          tr.securityType, tr.amount)
  IN /\ Len(children) + Len(r.built) <= MaxChildren
     /\ cashBalance' = r.cashBalance
     /\ creditLimit' = r.creditLimit
     /\ securities' = r.securities
     /\ children' = children \o r.built
     /\ UNCHANGED <<allow_partial, transactions, last_call, pipeVars, submitted,
                    logVars, runs>>

\* the amounts a caller pays into an account
Deposits == {2}

InitChildren ==
  /\ PipeIdle
  /\ cashBalance \in [Accounts -> {0, 2}]
  /\ creditLimit \in [Accounts -> TxnCredit]
  /\ securities \in [Accounts -> {EmptyDict, "bond" :> 2}]
  /\ allow_partial = [i \in Accounts |-> TRUE]
  /\ transactions \in [Txns -> {TransactionAgent(s, b, amt) :
                                  s \in Accounts, b \in Accounts, amt \in TxnAmounts}]
  /\ \A t \in Txns : transactions[t].seller # transactions[t].buyer
  /\ last_call = NoCall
  /\ LogIdle
  /\ runs = <<>>

NextChildren ==
  \/ \E t \in Txns, role \in {"buyer", "seller"} : CreateChildrenCall(t, role)
  \/ \E a \in Accounts, amount \in Deposits : UpdateCashCall(a, amount)

SpecChildren == InitChildren /\ [][NextChildren]_vars

(***************************************************************************)
(* Properties of the staged pipeline.                                      *)
(***************************************************************************)
\* SettlementModel.calculate_settlement_efficiency (lines 790-796), in whole
\* percent
total_settled ==
  SumSeq([k \in DOMAIN settlement_confirmations |->
            settlement_confirmations[k].adjusted_net_amount])

calculate_settlement_efficiency ==
  IF total_possible_net > 0
  THEN (total_settled * 100) \div total_possible_net
  ELSE 0

TxIds == 1..(MaxTx + 1)

Rows == BagToSet(logs)

\* the rows of the log with this event for this transaction
RowsOf(event, tx) == {r \in Rows : r.event = event /\ r.tx = tx}

\* how many confirmations the model holds for tx
ConfirmationsFor(tx) ==
  Cardinality({k \in DOMAIN settlement_confirmations :
                 settlement_confirmations[k].transaction_id = tx})

TotalCash == SumOver(cash_account, Institutions)
TotalSecurities == SumOver(security_account, Institutions)

\* the rows of the last SettlementAgent.step
TraceRows == {settle_trace[k] : k \in DOMAIN settle_trace}

\* what a row moved: payer pays net, deliverer delivers qty
Moved(r, net, qty) ==
  LET payer == r.report.payer
      deliverer == r.report.deliverer
  IN /\ r.cash_after[payer] = r.cash_before[payer] - net
     /\ r.cash_after[deliverer] = r.cash_before[deliverer] + net
     /\ r.sec_after[deliverer] = r.sec_before[deliverer] - qty
     /\ r.sec_after[payer] = r.sec_before[payer] + qty
     /\ \A i \in Institutions \ {payer, deliverer} :
          /\ r.cash_after[i] = r.cash_before[i]
          /\ r.sec_after[i] = r.sec_before[i]

\* C1: once ValidationAgent has processed a CancelInstruction for a
\* transaction, no step creates a SettlementConfirmation for that transaction
\* (as the specification states it; the code lets the report already cleared settle).
C1_CancellationPrecedence ==
  [][\A tx \in TxIds :
       RowsOf("ProcessedCancellation", tx) # {}
         => ConfirmationsFor(tx)' = ConfirmationsFor(tx)]_vars

\* C3: no step of the pipeline, SettlementAgent.step included, changes the sum
\* of the cash balances or the sum of the security balances of the institutions.
C3_Conservation ==
  [][/\ TotalCash' = TotalCash
     /\ TotalSecurities' = TotalSecurities]_vars

\* C3 witness: a SettlementAgent.step has moved cash and securities, both for
\* a fully and for a partially settled report.
C3_Witness ==
  /\ \E r \in TraceRows : r.outcome = "Partial" /\ r.cash_after # r.cash_before
  /\ \E r \in TraceRows : r.outcome = "Full" /\ r.sec_after # r.sec_before

\* the usable cash of the payer and usable securities of the deliverer when
\* SettlementAgent.step reached the report of row r
UsableCash(r) == r.cash_before[r.report.payer] - CashMin
UsableSec(r) == r.sec_before[r.report.deliverer] - SecMin

\* C5: a report with net amount N, quantity Q and price p = N / Q whose payer
\* has usable cash A, 0 < A < N, and whose deliverer can deliver floor(A / p),
\* moves exactly A cash and floor(A / p) securities and is confirmed Partial
\* with adjusted_net_amount A and adjusted_quantity floor(A / p).
C5_CashPartialFill ==
  \A r \in TraceRows :
    LET N == r.report.net_amount
        Q == r.report.quantity
        A == UsableCash(r)
    IN (Q > 0 /\ 0 < A /\ A < N /\ UsableSec(r) >= (A * Q) \div N)
       => /\ r.outcome = "Partial"
          /\ r.net_amount = A
          /\ r.quantity = (A * Q) \div N
          /\ Moved(r, A, (A * Q) \div N)
          /\ \E k \in DOMAIN settlement_confirmations :
               settlement_confirmations[k] =
                 [transaction_id |-> r.report.transaction_id,
                  settlement_status |-> "Partial",
                  adjusted_quantity |-> (A * Q) \div N,
                  adjusted_net_amount |-> A]

\* C5 witness: the case of the specification, usable cash 100 against a report
\* of 15 units for 150, has been settled as 10 units for 100.
C5_Witness ==
  \E r \in TraceRows :
    /\ r.report.net_amount = 150 /\ r.report.quantity = 15
    /\ UsableCash(r) = 100 /\ UsableSec(r) >= 10
    /\ r.outcome = "Partial" /\ r.quantity = 10 /\ r.net_amount = 100

\* C6: after a partially filled settlement the remainder is back in the
\* pipeline: some queue holds an item of the transaction for the quantity
\* that was not filled (as the specification states it; the code re-inserts nothing).
C6_ChildRetry ==
  \A r \in TraceRows :
    r.outcome = "Partial" =>
      \/ \E k \in DOMAIN instructions :
           /\ instructions[k].transaction_id = r.report.transaction_id
           /\ instructions[k].instruction_type # "Cancel"
           /\ instructions[k].quantity = r.report.quantity - r.quantity
      \/ \E k \in DOMAIN validated_instructions :
           /\ validated_instructions[k].transaction_id = r.report.transaction_id
           /\ validated_instructions[k].quantity = r.report.quantity - r.quantity
      \/ \E k \in DOMAIN matched_pairs :
           /\ matched_pairs[k].transaction_id = r.report.transaction_id
           /\ matched_pairs[k].Payment.quantity = r.report.quantity - r.quantity
      \/ \E k \in DOMAIN clearing_reports :
           /\ clearing_reports[k].transaction_id = r.report.transaction_id
           /\ clearing_reports[k].quantity = r.report.quantity - r.quantity
      \/ \E k \in DOMAIN positioning_reports :
           /\ positioning_reports[k].transaction_id = r.report.transaction_id
           /\ positioning_reports[k].quantity = r.report.quantity - r.quantity

\* C7: a report that SettlementAgent.step reaches with the payer's cash at or
\* above the floor after paying and the deliverer's holdings at or above the
\* floor after delivering carries the quantity Q and net amount Q * P of the
\* transaction as it was initiated and validated, moves exactly Q * P cash and
\* Q securities, and leaves exactly one confirmation: Full, Q, Q * P.
C7_FullSettlement ==
  \A r \in TraceRows :
    LET tx == r.report.transaction_id
        N == r.report.net_amount
        Q == r.report.quantity
    IN (UsableCash(r) >= N /\ UsableSec(r) >= Q)
       => /\ r.outcome = "Full"
          /\ \E i \in RowsOf("InitiatedTransaction", tx) : Q = i.a /\ N = i.a * i.b
          /\ \E v \in RowsOf("ValidatedInstruction", tx) : v.leg = "P" /\ v.text = "Valid"
          /\ \E v \in RowsOf("ValidatedInstruction", tx) : v.leg = "S" /\ v.text = "Valid"
          /\ Moved(r, N, Q)
          /\ ConfirmationsFor(tx) = 1
          /\ \E k \in DOMAIN settlement_confirmations :
               settlement_confirmations[k] =
                 [transaction_id |-> tx, settlement_status |-> "Full",
                  adjusted_quantity |-> Q, adjusted_net_amount |-> N]

\* C7 witness: a payer 1000 above its floor has bought 15 at 10 from a
\* deliverer holding 100 above its floor.
C7_Witness ==
  \E r \in TraceRows :
    /\ UsableCash(r) = 1000 /\ UsableSec(r) = 100
    /\ r.report.quantity = 15 /\ r.report.net_amount = 150
    /\ r.outcome = "Full"
    /\ r.cash_after[r.report.payer] = CashMin + 850
    /\ r.sec_after[r.report.deliverer] = SecMin + 85


\* the stages an instruction pair passes through
NumStages == Cardinality(Stages)

\* transaction tx has an instruction, a pair or a report in some queue
InQueues(tx) ==
  \/ \E k \in DOMAIN instructions : instructions[k].transaction_id = tx
  \/ \E k \in DOMAIN validated_instructions :
       validated_instructions[k].transaction_id = tx
  \/ \E k \in DOMAIN matched_pairs : matched_pairs[k].transaction_id = tx
  \/ \E k \in DOMAIN clearing_reports : clearing_reports[k].transaction_id = tx
  \/ \E k \in DOMAIN positioning_reports : positioning_reports[k].transaction_id = tx

\* the Settlement stage has taken the positioning report of tx: it confirmed,
\* skipped or failed it
Consumed(tx) ==
  \/ RowsOf("SettledTransaction", tx) # {}
  \/ RowsOf("SettlementSkipped", tx) # {}
  \/ RowsOf("SettlementFailed", tx) # {}

\* C8: with every agent stepping exactly once per tick in an order that may
\* change from tick to tick, a valid, never-canceled instruction pair submitted
\* in tick t has had its positioning report consumed by the Settlement stage
\* by the end of tick t + 5 (5 = the number of stages), and none of its
\* instructions is in any queue from then on.
C8_BoundedCompletion ==
  \A e \in submitted :
    (/\ e.kind = "Payment"
     /\ \/ current_step > e.tick + NumStages
        \/ current_step = e.tick + NumStages /\ stepped = Agents)
    => Consumed(e.transaction_id) /\ ~InQueues(e.transaction_id)

\* C8 witness: a pair whose report the Settlement stage took only in the
\* fifth tick after its submission.
C8_Witness ==
  \E e \in submitted :
    /\ e.kind = "Payment"
    /\ current_step = e.tick + NumStages
    /\ SettlementId \in stepped
    /\ \E r \in TraceRows : r.report.transaction_id = e.transaction_id
    /\ ~InQueues(e.transaction_id)

\* C9: a ClearingReport for transaction T exists only if a Payment leg and a
\* Security leg of T were both validated, and once a cancellation has canceled
\* a leg of T (before Clearing took the pair) there is never a ClearingReport
\* for T.
C9_MatchingCompleteness ==
  \A tx \in TxIds :
    /\ RowsOf("ClearingReport", tx) # {}
       => /\ \E v \in RowsOf("ValidatedInstruction", tx) :
               v.leg = "P" /\ v.text = "Valid"
          /\ \E v \in RowsOf("ValidatedInstruction", tx) :
               v.leg = "S" /\ v.text = "Valid"
    /\ (\E c \in RowsOf("ProcessedCancellation", tx) : c.a > 0)
       => RowsOf("ClearingReport", tx) = {}

\* C9 witness: the two legs of a transaction reached the incoming queue in
\* different ticks, were matched and cleared.
C9_Witness ==
  \E p \in submitted, q \in submitted :
    /\ p.transaction_id = q.transaction_id
    /\ p.kind = "Payment" /\ q.kind = "Security"
    /\ p.tick # q.tick
    /\ RowsOf("ClearingReport", p.transaction_id) # {}

\* the kinds of the legs of tx that MatchingAgent.step finds in the validated
\* queue and does not skip
ValidatedKinds(tx) ==
  {validated_instructions[k].instruction_type :
     k \in {j \in DOMAIN validated_instructions :
              /\ validated_instructions[j].transaction_id = tx
              /\ validated_instructions[j].status # "Canceled"}}

\* C10: when MatchingAgent.step runs with only one leg of a transaction in the
\* validated queue, and the transaction is not canceled, that leg is in the
\* matched-pairs table after the step.
C10_IncompleteStaysPending ==
  [][\A tx \in TxIds :
       (/\ MatchingId \notin stepped
        /\ MatchingId \in stepped'
        /\ Cardinality(ValidatedKinds(tx)) = 1)
       => \E k \in DOMAIN matched_pairs' : matched_pairs'[k].transaction_id = tx]_vars

\* the settlement instructions held by the incoming queue, the validated queue
\* and the matched pairs
QueuedInstructions ==
  {instructions[k] : k \in {j \in DOMAIN instructions :
                              instructions[j].instruction_type # "Cancel"}}
  \cup {validated_instructions[k] : k \in DOMAIN validated_instructions}
  \cup ({matched_pairs[k].Payment : k \in DOMAIN matched_pairs} \ {NoInstr})
  \cup ({matched_pairs[k].Security : k \in DOMAIN matched_pairs} \ {NoInstr})

ValidatedSet == {validated_instructions[k] : k \in DOMAIN validated_instructions}

PairedSet ==
  ({matched_pairs[k].Payment : k \in DOMAIN matched_pairs}
   \cup {matched_pairs[k].Security : k \in DOMAIN matched_pairs}) \ {NoInstr}

ClearedTx == {clearing_reports[k].transaction_id : k \in DOMAIN clearing_reports}

\* x and y are the same instruction object
SameInstruction(x, y) ==
  x.transaction_id = y.transaction_id /\ x.instruction_type = y.instruction_type

\* C11: once an instruction is Settled or Canceled, no step of any stage
\* changes its status, puts it into the validated queue or into a matched
\* pair, or creates a clearing report from it, and cancel() leaves it as it is.
C11_TerminalImmutable ==
  [][\A x \in QueuedInstructions :
       x.status \in {"Settled", "Canceled"}
       => /\ cancel(x) = x
          /\ \A y \in QueuedInstructions' : SameInstruction(x, y) => y.status = x.status
          /\ \A y \in ValidatedSet' : SameInstruction(x, y) => x \in ValidatedSet
          /\ \A y \in PairedSet' : ~SameInstruction(x, y)
          /\ x.transaction_id \in ClearedTx' => x.transaction_id \in ClearedTx]_vars

\* C11 witness: the Validation stage has canceled an instruction that sits in
\* the validated queue, where the Matching stage will find it.
C11_Witness ==
  /\ ValidationId \in stepped
  /\ MatchingId \notin stepped
  /\ \E x \in ValidatedSet : x.status = "Canceled"

\* the step taken is ValidationAgent.step
ValidationActs == ValidationId \notin stepped /\ ValidationId \in stepped'

\* the incoming queue holds a CancelInstruction for tx
CancelQueued(tx) ==
  \E k \in DOMAIN instructions :
    instructions[k].instruction_type = "Cancel" /\ instructions[k].transaction_id = tx

\* positions of the settlement instructions of the incoming queue that no
\* queued cancellation names
LiveQueued ==
  {k \in DOMAIN instructions :
     /\ instructions[k].instruction_type # "Cancel"
     /\ instructions[k].status # "Canceled"
     /\ ~CancelQueued(instructions[k].transaction_id)}

\* positions of the validated queue filled by the step being taken
Added == (Len(validated_instructions) + 1)..Len(validated_instructions')

\* C15: ValidationAgent.step appends every non-canceled settlement instruction
\* of the incoming queue to the validated queue, once, with a Valid notice to
\* its sending institution, if and only if quantity > 0 and price > 0;
\* otherwise it drops it with an Invalid notice; the incoming queue is empty
\* after the step.
C15_ValidationRule ==
  [][ValidationActs
     => /\ instructions' = <<>>
        /\ \A k \in LiveQueued :
             LET instr == instructions[k]
                 ok == instr.quantity > 0 /\ instr.price > 0
                 at == {j \in Added : validated_instructions'[j] = instr}
                 box == inbox[instr.sendingInstitution]
                 box2 == inbox'[instr.sendingInstitution]
                 notice(word) == Message("validation_result", instr.transaction_id,
                                         Leg(instr), word)
                 got(word) == {j \in (Len(box) + 1)..Len(box2) : box2[j] = notice(word)}
             IN /\ Cardinality(at) = (IF ok THEN 1 ELSE 0)
                /\ Cardinality(got("Valid")) = (IF ok THEN 1 ELSE 0)
                /\ Cardinality(got("Invalid")) = (IF ok THEN 0 ELSE 1)
        /\ Cardinality(Added)
             = Cardinality({k \in LiveQueued :
                              instructions[k].quantity > 0 /\ instructions[k].price > 0})
        /\ \A i \in Institutions :
             Len(inbox'[i]) = Len(inbox[i])
               + Cardinality({k \in LiveQueued : instructions[k].sendingInstitution = i})]_vars

\* C15 witness: the Validation stage has accepted one leg and rejected
\* another, and the payer's inbox holds the rejection.
C15_Witness ==
  /\ ValidationId \in stepped
  /\ \E tx \in TxIds :
       /\ \E v \in RowsOf("ValidatedInstruction", tx) : v.leg = "S" /\ v.text = "Valid"
       /\ \E v \in RowsOf("ValidatedInstruction", tx) : v.leg = "P" /\ v.text = "Invalid"
       /\ \E j \in DOMAIN inbox[1] :
            inbox[1][j] = Message("validation_result", tx, "P", "Invalid")
       /\ \E j \in DOMAIN validated_instructions :
            /\ validated_instructions[j].transaction_id = tx
            /\ validated_instructions[j].instruction_type = "Security"

\* C16: when the incoming queue holds a CancelInstruction for a transaction
\* together with instructions of that transaction as ValidationAgent.step
\* starts, the step adds none of them to the validated queue, wherever the
\* cancellation stands in the queue, and leaves no CancelInstruction in the
\* incoming queue.
C16_CancelBeforeValidation ==
  [][ValidationActs
     => /\ \A k \in DOMAIN instructions' : instructions'[k].instruction_type # "Cancel"
        /\ \A k \in DOMAIN instructions :
             (/\ instructions[k].instruction_type # "Cancel"
              /\ CancelQueued(instructions[k].transaction_id))
             => \A j \in Added :
                  ~SameInstruction(validated_instructions'[j], instructions[k])]_vars

\* C16 witness: a Payment leg appended in an earlier tick than the
\* cancellation, so ahead of it in the queue, was skipped as canceled.
C16_Witness ==
  \E e \in submitted, c \in submitted :
    /\ e.kind = "Payment" /\ c.kind = "Cancel"
    /\ e.transaction_id = c.transaction_id
    /\ e.tick < c.tick
    /\ \E r \in RowsOf("SkippedCanceledInstruction", e.transaction_id) : r.leg = "P"

\* the rows of an event logged for transaction tx, each counted as often as
\* it was logged
RowCount(event, tx) ==
  LET S == RowsOf(event, tx)
  IN SumOver([r \in S |-> CopiesIn(r, logs)], S)

\* the clearing reports of tx waiting for the Positioning stage
ClearingQueued(tx) ==
  Cardinality({k \in DOMAIN clearing_reports : clearing_reports[k].transaction_id = tx})

\* the step taken is the step of the stage agent
StageActs(agent) == agent \notin stepped /\ agent \in stepped'

\* C17: under any ordering of the steps, a transaction id gets at most one
\* ClearingReport, one PositioningReport and one SettlementConfirmation, every
\* ClearingReport yields exactly one PositioningReport, and a stage's step
\* leaves nothing of what it consumed in its input queue.
C17_ExactlyOnce ==
  /\ [](\A tx \in TxIds :
          /\ RowCount("ClearingReport", tx) <= 1
          /\ RowCount("PositioningReport", tx) <= 1
          /\ ConfirmationsFor(tx) <= 1
          /\ RowCount("ClearingReport", tx)
               = RowCount("PositioningReport", tx) + ClearingQueued(tx))
  /\ [][/\ StageActs(MatchingId) => validated_instructions' = <<>>
        /\ StageActs(ClearingId) => matched_pairs' = <<>>
        /\ StageActs(PositioningId) => clearing_reports' = <<>>
        /\ StageActs(SettlementId) => positioning_reports' = <<>>]_vars

\* C17 witness: two transactions have each gone through Clearing, Positioning
\* and Settlement, and nothing of them is left in a queue.
C17_Witness ==
  /\ tx_counter > 2
  /\ \A tx \in 1..2 :
       /\ RowCount("ClearingReport", tx) = 1
       /\ RowCount("PositioningReport", tx) = 1
       /\ ConfirmationsFor(tx) = 1
       /\ ~InQueues(tx)

\* positions of the clearing reports queue filled by the step being taken
NewReports == (Len(clearing_reports) + 1)..Len(clearing_reports')

\* C18: for every complete, non-canceled matched pair ClearingAgent.step
\* creates one ClearingReport whose net_amount is quantity * price of the
\* Payment leg, whose payer is the sender of the Payment leg and whose
\* deliverer is the sender of the Security leg, and removes the pair from
\* matched_pairs.
C18_ClearingReportContent ==
  [][StageActs(ClearingId)
     => /\ \A k \in DOMAIN matched_pairs :
             LET pair == matched_pairs[k]
                 made == {j \in NewReports :
                            clearing_reports'[j].transaction_id = pair.transaction_id}
             IN IsComplete(pair)
                => /\ Cardinality(made) = 1
                   /\ \A j \in made :
                        /\ clearing_reports'[j].net_amount
                             = pair.Payment.quantity * pair.Payment.price
                        /\ clearing_reports'[j].quantity = pair.Payment.quantity
                        /\ clearing_reports'[j].payer = pair.Payment.sendingInstitution
                        /\ clearing_reports'[j].deliverer = pair.Security.sendingInstitution
                   /\ \A j \in DOMAIN matched_pairs' :
                        matched_pairs'[j].transaction_id # pair.transaction_id
        /\ Cardinality(NewReports)
             = Cardinality({k \in DOMAIN matched_pairs : IsComplete(matched_pairs[k])})]_vars

\* C18 witness: the Clearing stage has turned a pair initiated by institution
\* 2 into a report of 15 at 10 with payer 2 and deliverer 1.
C18_Witness ==
  /\ ClearingId \in stepped
  /\ matched_pairs = <<>>
  /\ \E j \in DOMAIN clearing_reports :
       /\ clearing_reports[j].payer = 2
       /\ clearing_reports[j].deliverer = 1
       /\ clearing_reports[j].quantity = 15
       /\ clearing_reports[j].net_amount = 150

\* C20: in every reachable state of the staged pipeline every institution's
\* cash balance is at least the cash account's min_balance and its security
\* balance at least the security account's min_balance.
C20_MinimumBalanceFloor ==
  \A i \in Institutions :
    /\ cash_account[i] >= CashMin
    /\ security_account[i] >= SecMin

\* C20 witness: a partial settlement has taken the payer's cash down to the
\* floor exactly.
C20_Witness ==
  \E r \in TraceRows :
    /\ r.outcome = "Partial"
    /\ r.cash_before[r.report.payer] > CashMin
    /\ r.cash_after[r.report.payer] = CashMin
    /\ cash_account[r.report.payer] = CashMin

\* every queue of the run is empty
Quiescent(s) ==
  s.ins = <<>> /\ s.val = <<>> /\ s.mp = <<>> /\ s.cr = <<>> /\ s.pr = <<>>

\* C21: for the same arrivals and no cancellation, once all queues are empty
\* the sequence of settlement confirmations and the account balances are the
\* same whatever order the five stage steps took in each tick.
C21_OrderingIndependence ==
  (Quiescent(runs.a) /\ Quiescent(runs.b))
  => /\ runs.a.conf = runs.b.conf
     /\ runs.a.cash = runs.b.cash
     /\ runs.a.sec = runs.b.sec

\* C24: every report that passes the cash and the security check of
\* SettlementAgent.step, clamped or not, has both withdrawals succeed: no
\* SettlementFailed is logged, and whatever the payer was credited in
\* securities the deliverer was debited.
C24_GuardSufficient ==
  /\ \A r \in Rows : r.event # "SettlementFailed"
  /\ \A r \in TraceRows :
       /\ r.outcome \in {"Full", "Partial", "Skipped"}
       /\ r.outcome \in {"Full", "Partial"} => Moved(r, r.net_amount, r.quantity)
       /\ r.sec_after[r.report.payer] - r.sec_before[r.report.payer]
            = r.sec_before[r.report.deliverer] - r.sec_after[r.report.deliverer]

\* C24 witness: one SettlementAgent.step has settled a report unclamped and
\* another after clamping it to what the deliverer could deliver.
C24_Witness ==
  /\ \E r \in TraceRows : r.outcome = "Full" /\ r.quantity = r.report.quantity
  /\ \E r \in TraceRows :
       /\ r.outcome = "Partial"
       /\ UsableSec(r) < r.report.quantity
       /\ r.quantity = UsableSec(r)

\* the quantity the cash-side check of SettlementAgent.step left of row r's
\* report, and whether that check let the report through
CashAdjustedQuantity(r) ==
  LET N == r.report.net_amount
      Q == r.report.quantity
  IN IF UsableCash(r) >= N THEN Q ELSE (UsableCash(r) * Q) \div N
PassedCashCheck(r) ==
  r.report.quantity > 0
  /\ (UsableCash(r) >= r.report.net_amount \/ UsableCash(r) > 0)

\* C25: when the deliverer cannot deliver the (possibly cash-adjusted)
\* quantity, the report settles for the deliverer's holdings above the
\* minimum balance at the report's price, is confirmed Partial, and leaves the
\* deliverer's security balance at its minimum; with nothing above the
\* minimum the report is skipped.
C25_SecurityPartialFill ==
  \A r \in TraceRows :
    LET price == r.report.net_amount \div r.report.quantity
        H == UsableSec(r)
    IN (PassedCashCheck(r) /\ H < CashAdjustedQuantity(r))
       => IF H <= 0
          THEN r.outcome = "Skipped"
          ELSE /\ r.outcome = "Partial"
               /\ r.quantity = H
               /\ r.net_amount = H * price
               /\ Moved(r, H * price, H)
               /\ r.sec_after[r.report.deliverer] = SecMin
               /\ \E k \in DOMAIN settlement_confirmations :
                    settlement_confirmations[k] =
                      [transaction_id |-> r.report.transaction_id,
                       settlement_status |-> "Partial",
                       adjusted_quantity |-> H,
                       adjusted_net_amount |-> H * price]

\* C25 witness: a report of 15 units for 150 that the cash check had cut to
\* 10 units has been settled as 5 units for 50, all the deliverer held above
\* its minimum.
C25_Witness ==
  \E r \in TraceRows :
    /\ r.report.quantity = 15 /\ r.report.net_amount = 150
    /\ UsableCash(r) = 100 /\ CashAdjustedQuantity(r) = 10
    /\ UsableSec(r) = 5
    /\ r.outcome = "Partial" /\ r.quantity = 5 /\ r.net_amount = 50
    /\ r.sec_after[r.report.deliverer] = SecMin

\* the rows of SettlementAgent.step that ended in SettlementSkipped
Skips(trace) == {k \in DOMAIN trace : trace[k].outcome = "Skipped"}

\* C26: a report for which SettlementAgent.step logs SettlementSkipped has
\* changed no balance and has no confirmation, and the step goes on with the
\* reports behind it: every report of the queue is handled, each from the
\* balances the one before it left, and every report not skipped is confirmed.
C26_SkipLeavesLedger ==
  /\ [](\A r \in TraceRows :
          r.outcome = "Skipped"
            => /\ r.cash_after = r.cash_before
               /\ r.sec_after = r.sec_before
               /\ ConfirmationsFor(r.report.transaction_id) = 0)
  /\ [][StageActs(SettlementId) =>
          /\ Len(settle_trace') = Len(positioning_reports)
          /\ \A k \in DOMAIN settle_trace' :
               /\ settle_trace'[k].report = positioning_reports[k]
               /\ settle_trace'[k].cash_before =
                    IF k = 1 THEN cash_account ELSE settle_trace'[k - 1].cash_after
               /\ settle_trace'[k].sec_before =
                    IF k = 1 THEN security_account ELSE settle_trace'[k - 1].sec_after
          /\ Len(settlement_confirmations') - Len(settlement_confirmations)
               = Len(settle_trace') - Cardinality(Skips(settle_trace'))
          /\ Cardinality(Skips(settle_trace'))
               = Cardinality({r \in BagToSet(logs') : r.event = "SettlementSkipped"})
                 - Cardinality({r \in Rows : r.event = "SettlementSkipped"})]_vars

\* C26 witness: in one step a report was skipped after its cash-side
\* adjustment, the deliverer having nothing to deliver, and the report behind
\* it was settled.
C26_Witness ==
  \E k \in DOMAIN settle_trace :
    /\ k < Len(settle_trace)
    /\ settle_trace[k].outcome = "Skipped"
    /\ 0 < UsableCash(settle_trace[k])
    /\ UsableCash(settle_trace[k]) < settle_trace[k].report.net_amount
    /\ UsableSec(settle_trace[k]) <= 0
    /\ settle_trace[k + 1].outcome \in {"Full", "Partial"}
    /\ settle_trace[k + 1].cash_after # settle_trace[k + 1].cash_before

\* a leg of the pair is Canceled
CanceledPair(pair) ==
  pair.Payment.status = "Canceled" \/ pair.Security.status = "Canceled"

\* the net amounts of the pairs ClearingAgent.step is about to report
LiveNet ==
  SumSeq([k \in DOMAIN matched_pairs |->
            IF CanceledPair(matched_pairs[k]) THEN 0
            ELSE matched_pairs[k].Payment.quantity * matched_pairs[k].Payment.price])

\* C27: a matched pair with a Canceled leg gets no ClearingReport from
\* ClearingAgent.step, adds nothing to total_possible_net, and is removed from
\* matched_pairs.
C27_ClearingDropsCanceled ==
  [][StageActs(ClearingId)
     => /\ \A k \in DOMAIN matched_pairs :
             CanceledPair(matched_pairs[k])
               => /\ \A j \in DOMAIN clearing_reports' :
                       clearing_reports'[j].transaction_id
                         # matched_pairs[k].transaction_id
                  /\ \A j \in DOMAIN matched_pairs' :
                       matched_pairs'[j].transaction_id
                         # matched_pairs[k].transaction_id
                  /\ \A tx \in TxIds :
                       tx = matched_pairs[k].transaction_id
                         => RowCount("CanceledPair", tx)' = 1
        /\ total_possible_net' = total_possible_net + LiveNet
        /\ Cardinality(NewReports)
             = Cardinality({k \in DOMAIN matched_pairs :
                              ~CanceledPair(matched_pairs[k])})]_vars

\* C27 witness: ClearingAgent.step has met a pair with a Canceled leg and a
\* live pair in the same queue; it reported the live one only.
C27_Witness ==
  \E tx \in TxIds, other \in TxIds :
    /\ RowsOf("CanceledPair", tx) # {}
    /\ RowsOf("ClearingReport", tx) = {}
    /\ RowsOf("ClearingReport", other) # {}
    /\ total_possible_net > 0
    /\ matched_pairs = <<>>

\* no instruction of tx is in the incoming queue, the validated queue or
\* matched_pairs
UnknownTx(tx) ==
  /\ \A k \in DOMAIN instructions :
       instructions[k].instruction_type = "Cancel" \/ instructions[k].transaction_id # tx
  /\ \A k \in DOMAIN validated_instructions : validated_instructions[k].transaction_id # tx
  /\ \A k \in DOMAIN matched_pairs : matched_pairs[k].transaction_id # tx

\* the CancelInstructions of the incoming queue
QueuedCancels ==
  {k \in DOMAIN instructions : instructions[k].instruction_type = "Cancel"}

\* C31: a ValidationAgent.step whose CancelInstructions all name transactions
\* with no instruction in the incoming queue, the validated queue or
\* matched_pairs changes no instruction status, no pair, no report and no
\* balance: the cancellations are discarded, logged with a count of 0, and the
\* settlement instructions of the queue are validated as they stand.
C31_UnknownCancelNoOp ==
  [][(/\ ValidationActs
      /\ QueuedCancels # {}
      /\ \A k \in QueuedCancels : UnknownTx(instructions[k].transaction_id))
     => /\ instructions' = <<>>
        /\ matched_pairs' = matched_pairs
        /\ SubSeq(validated_instructions', 1, Len(validated_instructions))
             = validated_instructions
        /\ \A j \in Added : \E k \in DOMAIN instructions :
             validated_instructions'[j] = instructions[k]
        /\ Cardinality(Added)
             = Cardinality({k \in DOMAIN instructions :
                              /\ instructions[k].instruction_type # "Cancel"
                              /\ instructions[k].status # "Canceled"
                              /\ validate(instructions[k])})
        /\ cash_account' = cash_account
        /\ security_account' = security_account
        /\ clearing_reports' = clearing_reports
        /\ positioning_reports' = positioning_reports
        /\ settlement_confirmations' = settlement_confirmations
        /\ \A k \in QueuedCancels :
             LogRow(ValidationId, "ProcessedCancellation",
                    instructions[k].transaction_id, "", "", 0, 0) \in BagToSet(logs')]_vars

\* C31 witness: a cancellation found nothing of its transaction left to
\* cancel, while the two legs of another transaction that stood in the
\* incoming queue with it are in the validated queue.
C31_Witness ==
  \E tx \in TxIds, other \in TxIds :
    /\ tx # other
    /\ ValidationId \in stepped
    /\ \E r \in RowsOf("ProcessedCancellation", tx) : r.a = 0
    /\ RowsOf("ClearingReport", tx) # {}
    /\ Cardinality({k \in DOMAIN validated_instructions :
                      /\ validated_instructions[k].transaction_id = other
                      /\ validated_instructions[k].status # "Canceled"}) = 2

\* C32: every confirmed settlement has adjusted_net_amount =
\* adjusted_quantity * price, price being the report's net_amount / quantity,
\* also after a cash-side partial fill.
C32_ConfirmedAmountsConsistent ==
  \A r \in TraceRows :
    r.outcome \in {"Full", "Partial"}
      => /\ r.net_amount * r.report.quantity = r.quantity * r.report.net_amount
         /\ \E k \in DOMAIN settlement_confirmations :
              /\ settlement_confirmations[k].transaction_id = r.report.transaction_id
              /\ settlement_confirmations[k].adjusted_net_amount = r.net_amount
              /\ settlement_confirmations[k].adjusted_quantity = r.quantity

\* C33: every SettlementConfirmation has adjusted_quantity > 0, and no
\* settlement moves cash from the payer to the deliverer while delivering no
\* securities.
C33_NoEmptySettlement ==
  /\ \A k \in DOMAIN settlement_confirmations :
       settlement_confirmations[k].adjusted_quantity > 0
  /\ \A r \in TraceRows :
       r.cash_after # r.cash_before => r.sec_after # r.sec_before

\* C34: between agent steps every entry of matched_pairs has its Payment and
\* its Security slot filled, both with instructions that are not Canceled,
\* whatever the order of the steps and whatever cancellations arrive.
C34_PairsComplete ==
  \A k \in DOMAIN matched_pairs :
    /\ matched_pairs[k].Payment # NoInstr
    /\ matched_pairs[k].Security # NoInstr
    /\ matched_pairs[k].Payment.status # "Canceled"
    /\ matched_pairs[k].Security.status # "Canceled"
    /\ matched_pairs[k].Payment.instruction_type = "Payment"
    /\ matched_pairs[k].Security.instruction_type = "Security"

\* C34 witness: a pair waits in matched_pairs while a cancellation of its
\* transaction waits in the incoming queue.
C34_Witness ==
  \E k \in DOMAIN matched_pairs :
    /\ CancelQueued(matched_pairs[k].transaction_id)
    /\ matched_pairs[k].Payment.status = "New"
    /\ matched_pairs[k].Security.status = "New"

\* C35: the sum of adjusted_net_amount over all settlement confirmations is
\* never more than total_possible_net, so calculate_settlement_efficiency is
\* between 0 and 100.
C35_SettledWithinCleared ==
  /\ total_settled >= 0
  /\ total_settled <= total_possible_net
  /\ calculate_settlement_efficiency >= 0
  /\ calculate_settlement_efficiency <= 100

\* C35 witness: of two cleared transactions one has settled in full and one in
\* part, and the efficiency lies strictly between 0 and 100.
C35_Witness ==
  /\ Len(settlement_confirmations) = 2
  /\ \E k \in DOMAIN settlement_confirmations :
       settlement_confirmations[k].settlement_status = "Full"
  /\ \E k \in DOMAIN settlement_confirmations :
       settlement_confirmations[k].settlement_status = "Partial"
  /\ 0 < calculate_settlement_efficiency
  /\ calculate_settlement_efficiency < 100

(***************************************************************************)
(* Properties of the transaction-agent simulator.                          *)
(***************************************************************************)

\* C2: an account that starts with cashBalance >= 0, creditLimit >= 0 and
\* non-negative holdings keeps cashBalance + creditLimit >= 0 and every entry
\* of securities >= 0 through any sequence of updateCashBalance and
\* updateSecurities calls of either sign, whether they succeed or fail.
C2_LedgerInvariant ==
  \A a \in Accounts :
    /\ cashBalance[a] + creditLimit[a] >= 0
    /\ \A securityType \in DOMAIN securities[a] : securities[a][securityType] >= 0

\* a debit larger than the cash was accepted and used up the credit limit to
\* the last unit
C2_Witness ==
  /\ last_call.op = "updateCashBalance"
  /\ last_call.amount < 0
  /\ last_call.ret = last_call.amount
  /\ last_call.cash_before > 0
  /\ last_call.cash_before + last_call.amount < 0
  /\ cashBalance[last_call.account] = 0
  /\ creditLimit[last_call.account] = 0

\* C4: when the payer's institution has opted out of partial settlement and the
\* payer cannot fully fund the transaction, the settlement attempt ends Failed
\* with every account balance unchanged.
C4_OptOutNoMovement ==
  [][\A t \in Txns :
       LET tr == transactions[t]
       IN (/\ transactions'[t].state # tr.state
           /\ ~allow_partial[participant(tr.buyer)]
           /\ ~checkSufficientCash(cashBalance[tr.buyer], creditLimit[tr.buyer],
                                   tr.amount))
          => /\ transactions'[t].state = "Failed"
             /\ cashBalance' = cashBalance
             /\ creditLimit' = creditLimit
             /\ securities' = securities]_vars

\* C12: updateCashBalance(-a) with a > 0 returns 0 exactly when
\* cashBalance + creditLimit - a < 0, and then leaves cashBalance and
\* creditLimit as they were; a call with a non-negative amount always succeeds.
C12_CashDebitFailure ==
  last_call.op = "updateCashBalance"
  => LET a == last_call.account
         amount == last_call.amount
     IN /\ amount < 0
           => /\ (last_call.ret = 0)
                 <=> (last_call.cash_before + last_call.credit_before + amount < 0)
              /\ last_call.ret = 0
                 => /\ cashBalance[a] = last_call.cash_before
                    /\ creditLimit[a] = last_call.credit_before
        /\ amount >= 0
           => /\ last_call.ret = amount
              /\ cashBalance[a] = last_call.cash_before + amount
              /\ creditLimit[a] = last_call.credit_before

\* C12 witness: a debit one unit beyond cash plus credit was refused, on an
\* account that had both cash and credit.
C12_Witness ==
  /\ last_call.op = "updateCashBalance"
  /\ last_call.amount < 0
  /\ last_call.ret = 0
  /\ last_call.cash_before > 0
  /\ last_call.credit_before > 0
  /\ last_call.cash_before + last_call.credit_before + last_call.amount = -1

\* C13: a successful debit of a > 0 on an account with cashBalance c and
\* creditLimit l gives (c - a, l) when a <= c and (0, l - (a - c)) when a > c.
C13_CreditDrawDown ==
  (last_call.op = "updateCashBalance" /\ last_call.amount < 0 /\ last_call.ret # 0)
  => LET acct == last_call.account
         a == -last_call.amount
         c == last_call.cash_before
         l == last_call.credit_before
     IN IF a <= c
        THEN cashBalance[acct] = c - a /\ creditLimit[acct] = l
        ELSE cashBalance[acct] = 0 /\ creditLimit[acct] = l - (a - c)

\* C13 witness: a debit of 2 on cash 1 and credit limit 2 left cash 0 and
\* credit limit 1.
C13_Witness ==
  /\ last_call.op = "updateCashBalance"
  /\ last_call.amount = -2
  /\ last_call.ret = -2
  /\ last_call.cash_before = 1
  /\ last_call.credit_before = 2
  /\ cashBalance[last_call.account] = 0
  /\ creditLimit[last_call.account] = 1

\* C14: updateSecurities(type, -a) with a > 0 returns 0 exactly when the
\* holding of that type (0 when absent) is less than a, and then leaves every
\* holding as it was; otherwise the holding of that type goes down by exactly
\* a and no other holding changes.
C14_SecurityDebitFailure ==
  [][(/\ last_call' # last_call
      /\ last_call'.op = "updateSecurities"
      /\ last_call'.amount < 0)
     => LET acct == last_call'.account
            securityType == last_call'.securityType
            a == -last_call'.amount
            held == Held(securities[acct], securityType)
        IN /\ (last_call'.ret = 0) <=> (held < a)
           /\ last_call'.ret = 0 => securities' = securities
           /\ last_call'.ret # 0
              => /\ Held(securities'[acct], securityType) = held - a
                 /\ \A other \in SecurityTypes \ {securityType} :
                      /\ Held(securities'[acct], other) = Held(securities[acct], other)
                      /\ other \in DOMAIN securities'[acct]
                         <=> other \in DOMAIN securities[acct]
                 /\ \A b \in Accounts \ {acct} : securities'[b] = securities[b]]_vars

\* C14 witness: the whole "bond" holding was debited from an account that
\* also holds "note".
C14_Witness ==
  /\ last_call.op = "updateSecurities"
  /\ last_call.securityType = "bond"
  /\ last_call.amount < 0
  /\ last_call.ret = last_call.amount
  /\ Held(securities[last_call.account], "bond") = 0
  /\ Held(securities[last_call.account], "note") > 0



\* C22: the buyer's cash leg and the seller's security leg are applied together
\* or not at all: a transaction that ends settle() in state Failed leaves the
\* buyer's cashBalance and creditLimit and the seller's securities unchanged.
C22_DvPAtomicity ==
  [][\A t \in Txns :
       LET tr == transactions[t]
       IN (tr.state # "Failed" /\ transactions'[t].state = "Failed")
          => /\ cashBalance'[tr.buyer] = cashBalance[tr.buyer]
             /\ creditLimit'[tr.buyer] = creditLimit[tr.buyer]
             /\ securities'[tr.seller] = securities[tr.seller]]_vars

\* C23: a transaction whose buyer has cashBalance + creditLimit >= amount and
\* whose seller holds at least amount of the security ends settle() in state
\* Settled, the two debits of amount having been applied.
C23_ReachesSettled ==
  [][\A t \in Txns :
       LET tr == transactions[t]
       IN (/\ transactions'[t].state # tr.state
           /\ checkSufficientCash(cashBalance[tr.buyer], creditLimit[tr.buyer],
                                  tr.amount)
           /\ checkSufficientSecurities(securities[tr.seller], tr.securityType,
                                        tr.amount))
          => /\ transactions'[t].state = "Settled"
             /\ cashBalance'[tr.buyer] + creditLimit'[tr.buyer]
                  = cashBalance[tr.buyer] + creditLimit[tr.buyer] - tr.amount
             /\ Held(securities'[tr.seller], tr.securityType)
                  = Held(securities[tr.seller], tr.securityType) - tr.amount]_vars


\* C28: createChildren of a seller instruction whose account holds h of the
\* security, 0 < h < amount, builds a settled child of amount h and a pending
\* child of amount - h, both with the instruction as mother, and debits h
\* securities from the seller.
C28_SecurityChildSplit ==
  \A t \in Txns :
    LET tr == transactions[t]
        id == InstructionId("seller", t)
        h == Held(securities[tr.seller], tr.securityType)
        r == createChildren(id, "seller", tr.seller, tr.securityType, tr.amount)
    IN (0 < h /\ h < tr.amount)
       => /\ r.built =
               <<InstructionAgent(ChildId(id, 1), id, tr.securityType, h, TRUE,
                                  "settled", "seller", tr.seller),
                 InstructionAgent(ChildId(id, 2), id, tr.securityType,
                                  tr.amount - h, TRUE, "pending", "seller", tr.seller)>>
          /\ Held(r.securities[tr.seller], tr.securityType) = 0

StateRank(state) ==
  IF state = "Pending" THEN 0
  ELSE IF state = "Validated" THEN 1
  ELSE IF state = "Matched" THEN 2
  ELSE 3

TxnStates ==
  {"Pending", "Validated", "Matched", "Settled", "Failed", "Partially_Settled"}

\* C30: TransactionAgent.state only advances along Pending -> Validated ->
\* Matched -> {Settled, Failed, Partially_Settled}: no step moves a transaction
\* to an earlier state, a Settled or Failed transaction keeps its state, and
\* an account only changes in a step that takes a transaction out of a state
\* other than Settled and Failed.
C30_MonotonicStates ==
  /\ [](\A t \in Txns : transactions[t].state \in TxnStates)
  /\ [][/\ \A t \in Txns :
             /\ StateRank(transactions'[t].state) >= StateRank(transactions[t].state)
             /\ transactions[t].state \in {"Settled", "Failed"}
                  => transactions'[t] = transactions[t]
        /\ (cashBalance' # cashBalance \/ creditLimit' # creditLimit
            \/ securities' # securities)
             => \E t \in Txns :
                  /\ transactions[t].state \notin {"Settled", "Failed"}
                  /\ transactions'[t].state # transactions[t].state]_vars

\* C30 witness: a transaction has ended Failed while its buyer can still fund
\* its amount, so that another settlement attempt would debit the buyer again.
C30_Witness ==
  \E t \in Txns :
    LET tr == transactions[t]
    IN /\ tr.state = "Failed"
       /\ checkSufficientCash(cashBalance[tr.buyer], creditLimit[tr.buyer], tr.amount)
       /\ last_call.op = "updateSecurities"


\* the last updateCashBalance did not take the failure return of line 51
CashCallSucceeded ==
  /\ last_call.op = "updateCashBalance"
  /\ ~(last_call.amount < 0
       /\ last_call.cash_before + last_call.credit_before + last_call.amount < 0)

\* C36: every successful updateCashBalance(x), x of either sign, changes
\* cashBalance + creditLimit by exactly x, and no call ever raises creditLimit:
\* credit drawn by a debit is not restored by a later credit.
C36_UsableFundsExact ==
  /\ [](CashCallSucceeded
          => /\ cashBalance[last_call.account] + creditLimit[last_call.account]
                  = last_call.cash_before + last_call.credit_before + last_call.amount
             /\ last_call.ret = last_call.amount)
  /\ [][\A a \in Accounts : creditLimit'[a] <= creditLimit[a]]_vars

\* C36 witness: a credit of 2 to an account with no cash and a credit limit
\* of 1 left the credit limit at 1 and the cash at 2.
C36_Witness ==
  /\ CashCallSucceeded
  /\ last_call.amount = 2
  /\ last_call.cash_before = 0
  /\ last_call.credit_before = 1
  /\ cashBalance[last_call.account] = 2
  /\ creditLimit[last_call.account] = 1

(***************************************************************************)
(* Properties of log_event.                                                *)
(***************************************************************************)

\* C19: after any sequence of log_event calls, event_log holds no two entries
\* with the same agent id and message, and every call that changes a log adds
\* exactly one entry to activity_log.
C19_AuditDedup ==
  /\ [](\A j \in DOMAIN event_log : \A k \in DOMAIN event_log :
          (/\ event_log[j].AgentID = event_log[k].AgentID
           /\ event_log[j].Event = event_log[k].Event)
          => j = k)
  /\ [][(event_log' # event_log \/ activity_log' # activity_log)
        => /\ Len(activity_log') = Len(activity_log) + 1
           /\ \A k \in DOMAIN activity_log : activity_log'[k] = activity_log[k]]_vars

============================================================================
